---- MODULE Spec2Model ----
(***************************************************************************)
(* Cursor / loop engine of the alphaTab integration lab:                   *)
(*   - the playerPositionChanged handler of the v5.30 labs page            *)
(*     (expanded beat resolution, isSameBeat gate, backward/forward scans, *)
(*     loop boundary enforcer, jump detection),                            *)
(*   - the gesture handlers of BeatCustomLoopOverlay v1.7.5,               *)
(*   - the cursor object MaestroCursor v4.5 the page drives,               *)
(*   - CustomLoopOverlay v2.6: the expanded-pass resolver                  *)
(*     resolveExpandedBarStart, the gesture handlers and applyLoopSelection.*)
(* Ticks are the engine's ticks (480 per quarter note); JS null/undefined  *)
(* is NoBeat / NoTick / NoRange.                                           *)
(***************************************************************************)
EXTENDS Integers, Sequences, FiniteSets, TLC

\* ------------------------------------------------------------------ nulls

NoBeat == [bar |-> -1, n |-> 0]
NoTick == -1
NoRange == [startTick |-> -1, endTick |-> -1]

Abs(i) == IF i < 0 THEN -i ELSE i
Min2(a, b) == IF a <= b THEN a ELSE b
Max2(a, b) == IF a >= b THEN a ELSE b

\* ------------------------------------------------------------------ score
\* The score the collaborator supplies: five structural bars of 1920 ticks,
\*   bar 0: two half notes;
\*   bar 1: one whole note (a one-bar repeat);
\*   bar 2: one half note, then nothing sounding up to the bar end;
\*   bar 3: two quarters and a half note;
\*   bar 4: a dotted half and a quarter (bars 3-4 are repeated).

BarBeats ==
  << << [ps |-> 0, pd |-> 960], [ps |-> 960, pd |-> 960] >>,
     << [ps |-> 0, pd |-> 1920] >>,
     << [ps |-> 0, pd |-> 960] >>,
     << [ps |-> 0, pd |-> 480], [ps |-> 480, pd |-> 480], [ps |-> 960, pd |-> 960] >>,
     << [ps |-> 0, pd |-> 1440], [ps |-> 1440, pd |-> 480] >> >>

BarIndices == 0 .. (Len(BarBeats) - 1)

\* masterBar.calculateDuration()
calculateDuration(idx) == 1920

\* masterBar.start: the structural (first-pass, repeat-free) start of a bar
structuralStart(idx) == idx * 1920

AllBeats == UNION { { [bar |-> i, n |-> k] : k \in 1 .. Len(BarBeats[i + 1]) } : i \in BarIndices }

playbackStart(b) == BarBeats[b.bar + 1][b.n].ps
playbackDuration(b) == BarBeats[b.bar + 1][b.n].pd
absolutePlaybackStart(b) == structuralStart(b.bar) + playbackStart(b)

\* beat.nextBeat / beat.previousBeat: the structural beat list
nextBeat(b) ==
  IF b.n < Len(BarBeats[b.bar + 1]) THEN [bar |-> b.bar, n |-> b.n + 1]
  ELSE IF b.bar + 1 \in BarIndices THEN [bar |-> b.bar + 1, n |-> 1]
  ELSE NoBeat

previousBeat(b) ==
  IF b.n > 1 THEN [bar |-> b.bar, n |-> b.n - 1]
  ELSE IF b.bar - 1 \in BarIndices
       THEN [bar |-> b.bar - 1, n |-> Len(BarBeats[b.bar])]
  ELSE NoBeat

\* tickCache.masterBars: the expansion table, one entry per played bar, in
\* playback order:  | 0 |: 1 :| 2 |: 3 | 4 :|
masterBars ==
  << [index |-> 0, start |-> 0],
     [index |-> 1, start |-> 1920],
     [index |-> 1, start |-> 3840],
     [index |-> 2, start |-> 5760],
     [index |-> 3, start |-> 7680],
     [index |-> 4, start |-> 9600],
     [index |-> 3, start |-> 11520],
     [index |-> 4, start |-> 13440] >>

EndOfSong == masterBars[Len(masterBars)].start + calculateDuration(masterBars[Len(masterBars)].index)

\* the beat of bar idx sounding at offset off into the bar, or NoBeat
beatAtOffset(idx, off) ==
  LET hits == { k \in 1 .. Len(BarBeats[idx + 1]) :
                  BarBeats[idx + 1][k].ps <= off /\ off < BarBeats[idx + 1][k].ps + BarBeats[idx + 1][k].pd }
  IN IF hits = {} THEN NoBeat ELSE [bar |-> idx, n |-> CHOOSE k \in hits : TRUE]

\* tickCache.findBeat(trackIndices, tick).beat: the (structural) Beat object
\* of the bar occurrence playing at the expanded tick, or NoBeat
findBeatTable ==
  [ t \in 0 .. (EndOfSong - 1) |->
      LET k == CHOOSE k \in 1 .. Len(masterBars) :
                 masterBars[k].start <= t /\ t < masterBars[k].start + calculateDuration(masterBars[k].index)
      IN beatAtOffset(masterBars[k].index, t - masterBars[k].start) ]

findBeat(t) == IF t \in DOMAIN findBeatTable THEN findBeatTable[t] ELSE NoBeat

\* ------------------------------------------------------------------ layout
\* boundsLookup.staffSystems[].bars[]: the structural index of every visual
\* bar, in layout order.  One layout draws every bar once, the other draws a
\* repeated bar once per pass.
Layouts == { << 0, 1, 2, 3, 4 >>, << 0, 1, 1, 2, 3, 4, 3, 4 >> }

VARIABLES
  layout,                     \* the visual bars of the last layout pass
  loopEnabledRef,             \* page: loopEnabledRef.current
  playbackRange,              \* api.playbackRange
  isLooping,                  \* api.isLooping
  tickPosition,               \* api.tickPosition (transport position)
  lastTickRef,                \* page: lastTickRef.current
  stableCurBeatRef,           \* page: stableCurBeatRef.current
  stableExpandedBeatStartRef, \* page: stableExpandedBeatStartRef.current
  stableNextBeatRef,          \* page: stableNextBeatRef.current
  overlayRects,               \* BeatCustomLoopOverlay: rects (highlight rectangles)
  isDragging,                 \* BeatCustomLoopOverlay: isDragging.current
  startBeat,                  \* BeatCustomLoopOverlay: startBeat.current
  endBeat,                    \* BeatCustomLoopOverlay: endBeat.current
  downTickRef,                \* BeatCustomLoopOverlay: downTickRef.current
  beatCrossedRef,             \* BeatCustomLoopOverlay: beatCrossedRef.current
  downXRef,                   \* BeatCustomLoopOverlay: downXRef.current
  downYRef,                   \* BeatCustomLoopOverlay: downYRef.current
  persistedLoop,              \* page: persistedLoop (what onLoopChange / onLoopClear reported)
  rebuildPending,             \* render-finished callbacks waiting for their second animation frame
  ev,                         \* what the last handler run did (observation only)
  moveHistory,                \* what the moves since the last press resolved (observation only)
  pureCall,                   \* a call of a pure helper: its arguments and its result
  cursor,                     \* MaestroCursor: the fields of the cursor object
  playerIsPlaying,            \* api.player.isPlaying
  snapModeRef,                \* CustomLoopOverlay: snapModeRef.current
  dragRef,                    \* CustomLoopOverlay: dragRef.current
  previewSelection,           \* CustomLoopOverlay: previewSelection
  loopSelectionRef,           \* CustomLoopOverlay: loopSelectionRef.current
  pointerHeld                 \* whether the left mouse button is down (observation only)

vars == << layout, loopEnabledRef, playbackRange, isLooping, tickPosition,
           lastTickRef, stableCurBeatRef, stableExpandedBeatStartRef,
           stableNextBeatRef, overlayRects, isDragging, startBeat, endBeat,
           downTickRef, beatCrossedRef, downXRef, downYRef, persistedLoop,
           rebuildPending, ev, moveHistory, pureCall, cursor, playerIsPlaying,
           snapModeRef, dragRef, previewSelection, loopSelectionRef, pointerHeld >>

clockVars == << lastTickRef, stableCurBeatRef, stableExpandedBeatStartRef, stableNextBeatRef >>
gestureVars == << isDragging, startBeat, endBeat, downTickRef, beatCrossedRef, downXRef, downYRef >>
loopVars == << loopEnabledRef, playbackRange, isLooping >>
cursorVars == << cursor, playerIsPlaying >>
customVars == << snapModeRef, dragRef, previewSelection, loopSelectionRef, pointerHeld >>

\* ------------------------------------------------------------------ clock handler
\* (labs page v5.30, api.playerPositionChanged)

SAFETY_MARGIN == 120
JumpThreshold == 2000
BackwardScanBound == 2000
ForwardScanBound == 4000

\* occurrenceMap: how many earlier entries of the expansion table have the
\* structural index of entry k
tableOccurrence(k) ==
  Cardinality({ j \in 1 .. (k - 1) : masterBars[j].index = masterBars[k].index })

\* visualOccMap: how many earlier visual bars have the structural index of
\* visual bar v
visualOccurrence(lay, v) ==
  Cardinality({ u \in 1 .. (v - 1) : lay[u] = lay[v] })

\* Step 1: the loop over masterBars has no break, so the last entry whose
\* [start, start + dur) owns the tick stays in ownerMbIdx; 0 when none does
ownerEntry(tick) ==
  LET owners == { k \in 1 .. Len(masterBars) :
                    tick >= masterBars[k].start
                    /\ tick < masterBars[k].start + calculateDuration(masterBars[k].index) }
  IN IF owners = {} THEN 0 ELSE CHOOSE k \in owners : \A j \in owners : j <= k

\* Step 2: the first visual bar that is the ownerOccurrence-th visual
\* instance of ownerMbIdx; 0 when the layout has none
targetMbb(lay, idx, occ) ==
  LET hits == { v \in 1 .. Len(lay) : lay[v] = idx /\ visualOccurrence(lay, v) = occ }
  IN IF hits = {} THEN 0 ELSE CHOOSE v \in hits : \A u \in hits : v <= u

\* beatInBarAt with the beat's end taken as part of its interval
beatInBarAtClosedEnd(idx, ownerExpandedStart, tick) ==
  LET hits == { k \in 1 .. Len(BarBeats[idx + 1]) :
                  ownerExpandedStart + BarBeats[idx + 1][k].ps <= tick
                  /\ tick <= ownerExpandedStart + BarBeats[idx + 1][k].ps + BarBeats[idx + 1][k].pd }
  IN IF hits = {} THEN NoBeat
     ELSE [bar |-> idx, n |-> CHOOSE k \in hits : \A j \in hits : k <= j]

\* Step 3: the first beat of the visual bar whose expanded interval owns the tick
beatInBarAt(idx, ownerExpandedStart, tick) ==
  LET hits == { k \in 1 .. Len(BarBeats[idx + 1]) :
                  ownerExpandedStart + BarBeats[idx + 1][k].ps <= tick
                  /\ tick < ownerExpandedStart + BarBeats[idx + 1][k].ps + BarBeats[idx + 1][k].pd }
  IN IF hits = {} THEN NoBeat
     ELSE [bar |-> idx, n |-> CHOOSE k \in hits : \A j \in hits : k <= j]

\* Steps 1-3: the occurrence-aware resolution; NoBeat when a step finds nothing
expandedBeatResolution(tick, lay) ==
  LET k == ownerEntry(tick)
  IN IF k = 0 THEN NoBeat
     ELSE LET v == targetMbb(lay, masterBars[k].index, tableOccurrence(k))
          IN IF v = 0 THEN NoBeat
             ELSE beatInBarAt(lay[v], masterBars[k].start, tick)

\* the resolution asking findBeat first
resolveCurBeatStructuralFirst(tick, lay) ==
  IF findBeat(tick) # NoBeat THEN [beat |-> findBeat(tick), by |-> "findBeat"]
  ELSE [beat |-> expandedBeatResolution(tick, lay),
        by |-> IF expandedBeatResolution(tick, lay) # NoBeat THEN "traversal" ELSE "none"]

\* Steps 1-4: curBeat and the step that supplied it; Step 4 is the findBeat
\* fallback, taken when Steps 1-3 left curBeat null
resolveCurBeatStep(tick, lay) ==
  LET exact == expandedBeatResolution(tick, lay)
  IN IF exact # NoBeat THEN [beat |-> exact, by |-> "traversal"]
     ELSE IF findBeat(tick) # NoBeat THEN [beat |-> findBeat(tick), by |-> "findBeat"]
     ELSE [beat |-> NoBeat, by |-> "none"]

\* curBeat after Step 4; NoBeat makes the handler return
resolveCurBeat(tick, lay) == resolveCurBeatStep(tick, lay).beat

\* isSameBeat comparing Beat objects of two different lookups: never the same
isSameBeatNever(a, b) == FALSE

isSameBeat(a, b) ==
  /\ a # NoBeat
  /\ b # NoBeat
  /\ absolutePlaybackStart(a) = absolutePlaybackStart(b)
  /\ a.bar = b.bar

\* the greatest t in lo .. hi at which the backward scan breaks (no beat, or a
\* beat of another identity), none when it breaks nowhere: the descending loop
\* for (t = hi; t >= lo; t--), searched upper half first
RECURSIVE backwardBreak(_, _, _, _)
backwardBreak(lo, hi, curBeat, none) ==
  IF lo > hi THEN none
  ELSE IF lo = hi
       THEN IF findBeat(lo) = NoBeat \/ ~isSameBeat(findBeat(lo), curBeat) THEN lo ELSE none
  ELSE LET mid == (lo + hi + 1) \div 2
           upper == backwardBreak(mid, hi, curBeat, none)
       IN IF upper # none THEN upper ELSE backwardBreak(lo, mid - 1, curBeat, none)

\* the backward scan keeping the tick of the break itself
backwardScanAtBreak(tick, curBeat) ==
  LET none == tick - BackwardScanBound - 1
      t == backwardBreak(tick - BackwardScanBound, tick - 1, curBeat, none)
  IN IF t = none THEN tick ELSE t

\* the backward scan starting from the tick of the previous event
backwardScanFromLastTick(tick, curBeat) ==
  LET from == IF lastTickRef = NoTick THEN tick ELSE lastTickRef
      none == from - BackwardScanBound - 1
      t == backwardBreak(from - BackwardScanBound, from - 1, curBeat, none)
  IN IF t = none THEN from ELSE t + 1

\* Backward scan: expandedBeatStart
backwardScan(tick, curBeat) ==
  LET none == tick - BackwardScanBound - 1
      t == backwardBreak(tick - BackwardScanBound, tick - 1, curBeat, none)
  IN IF t = none THEN tick ELSE t + 1

\* the least t in lo .. hi at which the forward scan finds a beat of another
\* identity, none when it finds none: the ascending loop, lower half first
RECURSIVE forwardHit(_, _, _, _)
forwardHit(lo, hi, curBeat, none) ==
  IF lo > hi THEN none
  ELSE IF lo = hi
       THEN IF findBeat(lo) # NoBeat /\ ~isSameBeat(findBeat(lo), curBeat) THEN lo ELSE none
  ELSE LET mid == (lo + hi) \div 2
           lower == forwardHit(lo, mid, curBeat, none)
       IN IF lower # none THEN lower ELSE forwardHit(mid + 1, hi, curBeat, none)

\* Forward scan: scannedNextBeat (NoBeat = Mode B)
forwardScan(expandedBeatStart, curBeat) ==
  LET none == expandedBeatStart
      t == forwardHit(expandedBeatStart + 1, expandedBeatStart + ForwardScanBound, curBeat, none)
  IN IF t = none THEN NoBeat ELSE findBeat(t)

\* the ticks the player reports in position-change events
ClockTicks ==
  { 0, 959, 960, 1920, 3000, 3840, 5000, 5760, 6720, 7000, 7680, 8160,
    9600, 11039, 11040, 11399, 11400, 11519, 11520, 12000, 13440, 15000 }

\* both scans for every tick and beat the handler can ask for, each computed once
scanTable ==
  [ t \in ClockTicks |->
      [ b \in AllBeats |->
          LET s == backwardScan(t, b)
          IN [expandedBeatStart |-> s, scannedNextBeat |-> forwardScan(s, b)] ] ]

NoCall == [fn |-> "none", tick |-> NoTick, beat |-> NoBeat, start |-> NoTick]
RequestSnapCall == [fn |-> "requestSnap", tick |-> NoTick, beat |-> NoBeat, start |-> NoTick]
SetBeatCall(b) == [fn |-> "setBeat", tick |-> NoTick, beat |-> b, start |-> NoTick]
SetTickCall(t, nb, s) == [fn |-> "setTick", tick |-> t, beat |-> nb, start |-> s]

NoEvent ==
  [op |-> "none", tick |-> NoTick, wrapped |-> FALSE, jumped |-> FALSE,
   curBeat |-> NoBeat, scans |-> 0, calls |-> << >>,
   resolved |-> NoBeat, painted |-> FALSE, committed |-> NoRange, cancelled |-> FALSE,
   sameAsCached |-> FALSE, dist |-> "none", by |-> "none"]

\* the enforcer armed by loop mode alone, the end of an absent range read
\* as tick 0
enforcerFiresWithoutRange(tickRaw) ==
  /\ loopEnabledRef
  /\ tickRaw >= (IF playbackRange # NoRange THEN playbackRange.endTick ELSE 0) - SAFETY_MARGIN

\* the enforcer with a strict comparison
enforcerFiresStrict(tickRaw) ==
  /\ loopEnabledRef
  /\ playbackRange # NoRange
  /\ tickRaw > playbackRange.endTick - SAFETY_MARGIN

\* the enforcer without the margin
enforcerFiresAtEnd(tickRaw) ==
  /\ loopEnabledRef
  /\ playbackRange # NoRange
  /\ tickRaw >= playbackRange.endTick

\* the enforcer measuring the margin from the start of the range
enforcerFiresFromStart(tickRaw) ==
  /\ loopEnabledRef
  /\ playbackRange # NoRange
  /\ tickRaw >= playbackRange.startTick - SAFETY_MARGIN

\* LOOP BOUNDARY ENFORCER: the condition under which the handler forces the
\* transport back to the range start
enforcerFires(tickRaw) ==
  /\ loopEnabledRef
  /\ playbackRange # NoRange
  /\ tickRaw >= playbackRange.endTick - SAFETY_MARGIN

\* ------------------------------------------------------------------ geometry
\* What boundsLookup holds after a layout pass: one staff system (one row);
\* visual bar v is 384 px wide (5 ticks per px), every beat is as wide as its
\* share of the bar.

Row == [x |-> 0, y |-> 0, h |-> 100, barW |-> 384, ticksPerPx |-> 5]

NoRect == [x |-> -1, y |-> -1, w |-> 0, h |-> 0]

\* bar.visualBounds of visual bar v
barVisualBounds(v) == [x |-> (v - 1) * Row.barW, y |-> Row.y, w |-> Row.barW, h |-> Row.h]

\* sys.visualBounds: the row spans all visual bars
systemBounds(lay) == [x |-> 0, y |-> Row.y, w |-> Len(lay) * Row.barW, h |-> Row.h]

firstVisual(lay, idx) ==
  LET hits == { v \in 1 .. Len(lay) : lay[v] = idx }
  IN IF hits = {} THEN 0 ELSE CHOOSE v \in hits : \A u \in hits : v <= u

\* the beat's rectangle inside visual bar v
beatRectIn(v, b) ==
  [x |-> (v - 1) * Row.barW + playbackStart(b) \div Row.ticksPerPx, y |-> Row.y,
   w |-> playbackDuration(b) \div Row.ticksPerPx, h |-> Row.h]

\* boundsLookup.findBeat(beat).visualBounds: the lookup is keyed by the Beat
\* object, so a bar drawn several times answers with its first drawing
getBeatVB(lay, b) ==
  IF b = NoBeat \/ firstVisual(lay, b.bar) = 0 THEN NoRect
  ELSE beatRectIn(firstVisual(lay, b.bar), b)

\* twice the beat centre (vb.x + vb.w / 2), to stay in the integers
beatCenter2(lay, b) == 2 * getBeatVB(lay, b).x + getBeatVB(lay, b).w

inRect(x, y, r) == x >= r.x /\ x <= r.x + r.w /\ y >= r.y /\ y <= r.y + r.h

\* boundsLookup.getBeatAtPos(x, y): the beat whose rectangle holds the point
getBeatAtPos(lay, x, y) ==
  LET hits == { vb \in { [v |-> v, b |-> b] : v \in 1 .. Len(lay), b \in AllBeats } :
                  /\ vb.b.bar = lay[vb.v]
                  /\ y >= Row.y /\ y <= Row.y + Row.h
                  /\ x >= beatRectIn(vb.v, vb.b).x
                  /\ x < beatRectIn(vb.v, vb.b).x + beatRectIn(vb.v, vb.b).w }
  IN IF hits = {} THEN NoBeat ELSE (CHOOSE h \in hits : TRUE).b

\* ------------------------------------------------------------------ MaestroCursor v4.5

\* cursorWidth and topOverhang in px.  Horizontal positions are kept in
\* units of 1/11520 px: beat centres fall on half pixels and every beat
\* duration of the score divides 5760, so walkDistance * progress is exact.
CursorGeom == [cursorWidth |-> 14, topOverhang |-> 26, unitsPerPx |-> 11520]

px(n) == n * CursorGeom.unitsPerPx

\* nextBeatCenterX = null
NoAnchor == -1

\* bb.onNotesX is not a number in this lookup: vb.x + vb.w / 2
noteCenterX(b) == (beatCenter2(layout, b) * CursorGeom.unitsPerPx) \div 2

\* the cursor object after construction; mode, interpolatedX, snapPending
\* and snapWriteSkipped only record what the calls did: the mode of the last
\* setTick since setBeat / requestSnap, the X it computed, whether a
\* requestSnap still waits for its first applyTransform, and whether such a
\* first applyTransform ever skipped its write
NewCursor ==
  [currentBeat |-> NoBeat, currentNoteX |-> 0, currentY |-> 0, currentVbW |-> 0,
   nextBeatCenterX |-> NoAnchor, beatStart |-> 0, beatDuration |-> 0,
   beatStartToUse |-> 0, lastFinalX |-> px(-1), lastFinalY |-> -1,
   elementX |-> px(-1), elementY |-> 0, visible |-> FALSE,
   mode |-> "none", interpolatedX |-> 0,
   snapPending |-> FALSE, snapWriteSkipped |-> FALSE]

\* applyTransform(x, y, h, snap): a change below half a pixel in both axes
\* is not written
applyTransform(c, x, y) ==
  IF 2 * Abs(x - c.lastFinalX) < px(1) /\ 2 * Abs(y - c.lastFinalY) < 1
  THEN [c EXCEPT !.snapWriteSkipped = c.snapWriteSkipped \/ c.snapPending,
                 !.snapPending = FALSE]
  ELSE [c EXCEPT !.lastFinalX = x, !.lastFinalY = y, !.elementX = x, !.elementY = y,
                 !.snapPending = FALSE]

\* the anchor of a next beat checked for its row only
anchorOfAnyBar(cur, nb, curY) ==
  IF nb = NoBeat \/ getBeatVB(layout, nb) = NoRect THEN NoAnchor
  ELSE IF Abs(getBeatVB(layout, nb).y - curY) < 5
       THEN noteCenterX(nb)
       ELSE NoAnchor

\* the anchor a next beat gives: its centre when it has bounds, lies in the
\* row of the current beat and in the same bar; NoAnchor otherwise
anchorOf(cur, nb, curY) ==
  IF nb = NoBeat \/ getBeatVB(layout, nb) = NoRect THEN NoAnchor
  ELSE IF Abs(getBeatVB(layout, nb).y - curY) < 5 /\ cur.bar = nb.bar
       THEN noteCenterX(nb)
       ELSE NoAnchor

\* setBeat(beat)
setBeat(c, beat) ==
  IF beat = NoBeat THEN [c EXCEPT !.visible = FALSE]
  ELSE LET c1 == [c EXCEPT !.currentBeat = beat,
                           !.beatStart = absolutePlaybackStart(beat),
                           !.beatDuration = playbackDuration(beat),
                           !.beatStartToUse = absolutePlaybackStart(beat),
                           !.mode = "none"]
           vb == getBeatVB(layout, beat)
       IN IF vb = NoRect THEN [c1 EXCEPT !.visible = FALSE]
          ELSE LET c2 == [c1 EXCEPT !.currentNoteX = noteCenterX(beat),
                                    !.currentY = vb.y,
                                    !.currentVbW = px(vb.w),
                                    !.nextBeatCenterX = anchorOf(beat, nextBeat(beat), vb.y),
                                    !.visible = TRUE]
               IN applyTransform(c2, c2.currentNoteX - px(CursorGeom.cursorWidth) \div 2,
                                 vb.y - CursorGeom.topOverhang)

\* requestSnap that leaves the last written position in place
requestSnapKeepsLast(c) ==
  [c EXCEPT !.nextBeatCenterX = NoAnchor, !.beatStartToUse = c.beatStart,
            !.mode = "none", !.snapPending = TRUE]

\* requestSnap()
requestSnap(c) ==
  [c EXCEPT !.nextBeatCenterX = NoAnchor, !.beatStartToUse = c.beatStart,
            !.lastFinalX = px(-1), !.lastFinalY = -1,
            !.mode = "none", !.snapPending = TRUE]

\* findMasterBar(masterBar).visualBounds: right edge of the bar of the beat
barRightEdge(b) ==
  LET v == firstVisual(layout, b.bar)
  IN px(barVisualBounds(v).x + barVisualBounds(v).w)

\* setTick clearing the anchor when the next beat fails the row / bar check
filledAnchorOrCleared(c, nb) ==
  IF nb # NoBeat THEN anchorOf(c.currentBeat, nb, c.currentY)
  ELSE c.nextBeatCenterX

\* setTick taking the anchor of every next beat that passes the check
filledAnchorOverwrites(c, nb) ==
  IF nb # NoBeat /\ anchorOf(c.currentBeat, nb, c.currentY) # NoAnchor
  THEN anchorOf(c.currentBeat, nb, c.currentY)
  ELSE c.nextBeatCenterX

\* the nextBeatCenterX setTick leaves: filled from nextBeat only while null
filledAnchor(c, nb) ==
  IF nb # NoBeat /\ c.nextBeatCenterX = NoAnchor
  THEN LET a == anchorOf(c.currentBeat, nb, c.currentY)
       IN IF a # NoAnchor THEN a ELSE c.nextBeatCenterX
  ELSE c.nextBeatCenterX

\* progress without the clamp to [0, 1]
progressTicksUnclamped(c, tick, start) == tick - start

\* progress = clamp((tick - beatStartToUse) / beatDuration, 0, 1), as the
\* number of ticks of the beat that have elapsed
progressTicks(c, tick, start) == Max2(0, Min2(c.beatDuration, tick - start))

\* no pause clamp
pauseClampOff(c, x, p, playing) == x

\* pause clamp: transport stopped and progress >= 0.999
pauseClamp(c, x, p, playing) ==
  IF ~playing /\ 1000 * p >= 999 * c.beatDuration THEN c.currentNoteX ELSE x

\* setTick(tick, nextBeat, overrideBeatStart) past its early return; playing
\* is api.player.isPlaying at the time of the call
setTickFrom(c, tick, anchor, override, playing) ==
  LET start == IF override = NoTick THEN c.beatStart ELSE override
      p == progressTicks(c, tick, start)
      modeA == anchor # NoAnchor /\ anchor > c.currentNoteX
      walkDistance == IF modeA THEN anchor - c.currentNoteX
                      ELSE IF firstVisual(layout, c.currentBeat.bar) # 0
                           THEN barRightEdge(c.currentBeat) - c.currentNoteX
                           ELSE c.currentVbW
      walked == c.currentNoteX + (walkDistance \div c.beatDuration) * p
      guarded == IF modeA THEN Min2(walked, anchor) ELSE walked
      interpolatedX == pauseClamp(c, guarded, p, playing)
      c1 == [c EXCEPT !.beatStartToUse = start, !.nextBeatCenterX = anchor,
                      !.mode = IF modeA THEN "A" ELSE "B",
                      !.interpolatedX = interpolatedX]
  IN applyTransform(c1, interpolatedX - px(CursorGeom.cursorWidth) \div 2,
                    c.currentY - CursorGeom.topOverhang)

\* setTick returning early only without a beat or on a duration of exactly 0
setTickGuardsBeatOnly(c, tick, nb, override, playing) ==
  IF c.currentBeat = NoBeat \/ c.beatDuration = 0 THEN c
  ELSE setTickFrom(c, tick, filledAnchor(c, nb), override, playing)

\* setTick(tick, nextBeat, overrideBeatStart)
setTick(c, tick, nb, override, playing) ==
  IF c.currentBeat = NoBeat \/ c.beatDuration <= 0 THEN c
  ELSE setTickFrom(c, tick, filledAnchor(c, nb), override, playing)

\* updateCursorForTick(api, tick): snap to the beat the engine finds
updateCursorForTick(c, tick, playing) ==
  IF findBeat(tick) # NoBeat
  THEN setTick(setBeat(c, findBeat(tick)), tick, NoBeat, NoTick, playing)
  ELSE c

\* ------------------------------------------------------------------ clock handler: the event

\* jump detection with twice the threshold
jumpDetectedFar(tickRaw) ==
  lastTickRef # NoTick /\ Abs(tickRaw - lastTickRef) > 2 * JumpThreshold

\* JUMP DETECTION: jumped = lastTick != null && |tick - lastTick| > 2000
jumpDetected(tickRaw) ==
  lastTickRef # NoTick /\ Abs(tickRaw - lastTickRef) > JumpThreshold

\* api.playerPositionChanged.on((e) => ...), e.currentTick = tickRaw.
\* The cursor is attached (cursorRef.current) and tickCache is present for
\* the whole life of the modelled page.
playerPositionChanged(tickRaw) ==
  LET wrap == enforcerFires(tickRaw)
      jumped == jumpDetected(tickRaw)
      cached == IF jumped THEN NoBeat ELSE stableCurBeatRef
      cachedStart == IF jumped THEN 0 ELSE stableExpandedBeatStartRef
      snap == IF jumped THEN << RequestSnapCall >> ELSE << >>
      curBeat == resolveCurBeat(tickRaw, layout)
      enter == ~isSameBeat(curBeat, cached) \/ jumped
      scanned == scanTable[tickRaw][curBeat]
      snapped == IF jumped THEN requestSnap(cursor) ELSE cursor
  IN IF wrap
     THEN /\ tickPosition' = playbackRange.startTick
          /\ ev' = [NoEvent EXCEPT !.op = "clock", !.tick = tickRaw, !.wrapped = TRUE,
                                   !.calls = << RequestSnapCall >>]
          /\ cursor' = requestSnap(cursor)
          /\ UNCHANGED << clockVars >>
     ELSE /\ tickPosition' = tickRaw
          /\ lastTickRef' = tickRaw
          /\ IF curBeat = NoBeat
             THEN /\ stableCurBeatRef' = cached
                  /\ stableExpandedBeatStartRef' = cachedStart
                  /\ UNCHANGED stableNextBeatRef
                  /\ cursor' = snapped
                  /\ ev' = [NoEvent EXCEPT !.op = "clock", !.tick = tickRaw,
                                           !.jumped = jumped, !.calls = snap]
             ELSE IF enter
             THEN /\ stableCurBeatRef' = curBeat
                  /\ stableExpandedBeatStartRef' = scanned.expandedBeatStart
                  /\ stableNextBeatRef' = scanned.scannedNextBeat
                  /\ cursor' = setTick(setBeat(snapped, curBeat), tickRaw,
                                       scanned.scannedNextBeat,
                                       scanned.expandedBeatStart, playerIsPlaying)
                  /\ ev' = [NoEvent EXCEPT !.op = "clock", !.tick = tickRaw,
                              !.jumped = jumped, !.curBeat = curBeat, !.scans = 2,
                              !.by = resolveCurBeatStep(tickRaw, layout).by,
                              !.sameAsCached = isSameBeat(curBeat, stableCurBeatRef),
                              !.calls = snap \o << SetBeatCall(curBeat),
                                 SetTickCall(tickRaw, scanned.scannedNextBeat,
                                             scanned.expandedBeatStart) >>]
             ELSE /\ stableCurBeatRef' = cached
                  /\ stableExpandedBeatStartRef' = cachedStart
                  /\ UNCHANGED stableNextBeatRef
                  /\ cursor' = setTick(snapped, tickRaw, stableNextBeatRef,
                                       cachedStart, playerIsPlaying)
                  /\ ev' = [NoEvent EXCEPT !.op = "clock", !.tick = tickRaw,
                              !.jumped = jumped, !.curBeat = curBeat,
                              !.by = resolveCurBeatStep(tickRaw, layout).by,
                              !.sameAsCached = TRUE,
                              !.calls = snap \o << SetTickCall(tickRaw, stableNextBeatRef,
                                                               cachedStart) >>]

ClockEvent ==
  \E t \in ClockTicks :
    /\ playerPositionChanged(t)
    /\ UNCHANGED << layout, loopVars, overlayRects, gestureVars, persistedLoop, rebuildPending, moveHistory, pureCall, customVars, playerIsPlaying >>

\* ------------------------------------------------------------------ BeatCustomLoopOverlay v1.7.5

\* tickCache.getBeatStart(beat): the engine's lookup by bar index holds the
\* first time the bar is played
getBeatStart(b) ==
  LET first == CHOOSE k \in 1 .. Len(masterBars) :
                 /\ masterBars[k].index = b.bar
                 /\ \A j \in 1 .. (k - 1) : masterBars[j].index # b.bar
  IN masterBars[first].start + playbackStart(b)

tickOf(b) == getBeatStart(b)

durOf(b) == playbackDuration(b)

loHi(a, b) == IF tickOf(a) <= tickOf(b) THEN << a, b >> ELSE << b, a >>

isFirstBeatInBar(b) == previousBeat(b) = NoBeat \/ previousBeat(b).bar # b.bar

isLastBeatInBar(b) == nextBeat(b) = NoBeat \/ nextBeat(b).bar # b.bar

\* getExpandedBarRange(tick, beat): first table entry owning the tick, else the
\* beat's own (structural) bar, else null
getExpandedBarRange(tick, beat) ==
  LET owners == { k \in 1 .. Len(masterBars) :
                    /\ calculateDuration(masterBars[k].index) > 0
                    /\ tick >= masterBars[k].start
                    /\ tick < masterBars[k].start + calculateDuration(masterBars[k].index) }
      k == CHOOSE k \in owners : \A j \in owners : k <= j
  IN IF owners # {}
     THEN [startTick |-> masterBars[k].start,
           endTick |-> masterBars[k].start + calculateDuration(masterBars[k].index)]
     ELSE IF beat # NoBeat /\ calculateDuration(beat.bar) > 0
     THEN [startTick |-> structuralStart(beat.bar),
           endTick |-> structuralStart(beat.bar) + calculateDuration(beat.bar)]
     ELSE NoRange

\* buildBarRects(barIndex): the rectangle of every visual bar with that index
RECURSIVE barRectsFrom(_, _, _)
barRectsFrom(lay, barIndex, v) ==
  IF v > Len(lay) THEN << >>
  ELSE (IF lay[v] = barIndex THEN << barVisualBounds(v) >> ELSE << >>)
       \o barRectsFrom(lay, barIndex, v + 1)

buildBarRects(lay, barIndex) == barRectsFrom(lay, barIndex, 1)

\* buildRects(lo, hi): bars minBar .. maxBar, trimmed at the midpoints around
\* lo and hi, neighbours on one row merged.  Coordinates are doubled (x2, w2)
\* while trimming and halved at the end; every midpoint is a whole pixel.
x1Global2(lay, lo) ==
  IF isFirstBeatInBar(lo) THEN NoTick
  ELSE IF getBeatVB(lay, previousBeat(lo)) # NoRect /\ getBeatVB(lay, lo) # NoRect
       THEN (beatCenter2(lay, previousBeat(lo)) + beatCenter2(lay, lo)) \div 2
  ELSE IF getBeatVB(lay, lo) # NoRect THEN 2 * getBeatVB(lay, lo).x
  ELSE NoTick

x2Global2(lay, hi) ==
  IF isLastBeatInBar(hi) THEN NoTick
  ELSE IF getBeatVB(lay, hi) # NoRect /\ getBeatVB(lay, nextBeat(hi)) # NoRect
       THEN (beatCenter2(lay, hi) + beatCenter2(lay, nextBeat(hi))) \div 2
  ELSE IF getBeatVB(lay, hi) # NoRect THEN 2 * (getBeatVB(lay, hi).x + getBeatVB(lay, hi).w)
  ELSE NoTick

RECURSIVE rectsFrom(_, _, _, _, _, _, _)
rectsFrom(lay, minBar, maxBar, x1g, x2g, v, results) ==
  IF v > Len(lay) THEN results
  ELSE IF lay[v] < minBar \/ lay[v] > maxBar
       THEN rectsFrom(lay, minBar, maxBar, x1g, x2g, v + 1, results)
  ELSE LET b == barVisualBounds(v)
           x1 == IF lay[v] = minBar /\ x1g # NoTick THEN x1g \div 2 ELSE b.x
           x2 == IF lay[v] = maxBar /\ x2g # NoTick THEN x2g \div 2 ELSE b.x + b.w
           w == Max2(x2 - x1, 2)
           n == Len(results)
           merged ==
             IF n > 0 /\ Abs(results[n].y - b.y) < 4 /\ Abs((results[n].x + results[n].w) - x1) < 6
             THEN [results EXCEPT ![n].w = (x1 + w) - results[n].x]
             ELSE Append(results, [x |-> x1, y |-> b.y, w |-> w, h |-> b.h])
       IN rectsFrom(lay, minBar, maxBar, x1g, x2g, v + 1, merged)

buildRects(lay, lo, hi) ==
  IF lo = NoBeat \/ hi = NoBeat THEN << >>
  ELSE rectsFrom(lay, Min2(lo.bar, hi.bar), Max2(lo.bar, hi.bar),
                 x1Global2(lay, lo), x2Global2(lay, hi), 1, << >>)

\* the pointer events of the model: content coordinates of the pointer and
\* whether the event's target lies inside .at-surface
Points ==
  { [x |-> 100, y |-> 50, onSurface |-> TRUE],
    [x |-> 104, y |-> 52, onSurface |-> TRUE],
    [x |-> 1200, y |-> 50, onSurface |-> TRUE],
    [x |-> 1300, y |-> 105, onSurface |-> TRUE],
    [x |-> 300, y |-> 50, onSurface |-> FALSE] }

\* resolveBeatWithX, second half: getBeatAtPos found nothing; the beat whose
\* centre is nearest to x among the beats findBeat returns every 30 ticks of
\* the (structural) range of each bar within 20 px, first found wins a tie
nearestBeat(lay, x, y) ==
  LET sb == systemBounds(lay)
      cands == { c \in { [v |-> v, i |-> i] : v \in 1 .. Len(lay), i \in 0 .. 63 } :
                   /\ ~(y < sb.y - 10 \/ y > sb.y + sb.h + 10)
                   /\ ~(x < barVisualBounds(c.v).x - 20
                        \/ x > barVisualBounds(c.v).x + barVisualBounds(c.v).w + 20)
                   /\ structuralStart(lay[c.v]) + 30 * c.i
                        < structuralStart(lay[c.v]) + calculateDuration(lay[c.v])
                   /\ findBeat(structuralStart(lay[c.v]) + 30 * c.i) # NoBeat
                   /\ getBeatVB(lay, findBeat(structuralStart(lay[c.v]) + 30 * c.i)) # NoRect }
      beatOf(c) == findBeat(structuralStart(lay[c.v]) + 30 * c.i)
      dist2(c) == Abs(beatCenter2(lay, beatOf(c)) - 2 * x)
      before(c, d) == c.v < d.v \/ (c.v = d.v /\ c.i <= d.i)
      best == CHOOSE c \in cands :
                \A d \in cands : dist2(c) < dist2(d) \/ (dist2(c) = dist2(d) /\ before(c, d))
  IN IF cands = {} THEN NoBeat ELSE beatOf(best)

\* resolveBeatWithX(e).beat, NoBeat for a null result
resolveBeatWithX(lay, p) ==
  IF ~p.onSurface THEN NoBeat
  ELSE IF getBeatAtPos(lay, p.x, p.y) # NoBeat THEN getBeatAtPos(lay, p.x, p.y)
  ELSE nearestBeat(lay, p.x, p.y)

\* pointer events on either side of the boundary between the two quarter
\* notes of bar 0 (x = 192), four pixels apart, and one further into the bar
BoundaryPoints ==
  { [x |-> 190, y |-> 50, onSurface |-> TRUE],
    [x |-> 194, y |-> 50, onSurface |-> TRUE],
    [x |-> 300, y |-> 50, onSurface |-> TRUE] }

\* resolveBeatWithX for every layout and pointer event, each computed once
resolveTable ==
  [ lay \in Layouts |-> [ p \in Points \cup BoundaryPoints |-> resolveBeatWithX(lay, p) ] ]

\* observation: whether a pointer event at p is 10 px or more from the press point
farFromPress(p) ==
  IF (p.x - downXRef) * (p.x - downXRef) + (p.y - downYRef) * (p.y - downYRef) >= 100
  THEN "far" ELSE "near"

\* commitBarSnap committing the range of the beat instead of the bar's
barSnapRangeBeatOnly(beat) ==
  [startTick |-> tickOf(beat), endTick |-> tickOf(beat) + durOf(beat)]

\* commitBarSnap(beat, source): the range it commits, NoRange when it returns false
barSnapRange(beat) == getExpandedBarRange(tickOf(beat), beat)

\* onDown painting the pressed beat at once
onDownPaintsPress(p) ==
  LET beat == resolveTable[layout][p]
  IN /\ IF loopEnabledRef /\ beat # NoBeat
        THEN /\ isDragging' = TRUE
             /\ downXRef' = p.x
             /\ downYRef' = p.y
             /\ startBeat' = beat
             /\ endBeat' = beat
             /\ downTickRef' = tickOf(beat)
             /\ beatCrossedRef' = FALSE
             /\ moveHistory' = "none"
             /\ overlayRects' = buildRects(layout, beat, beat)
        ELSE UNCHANGED << gestureVars, moveHistory, overlayRects >>
     /\ ev' = [NoEvent EXCEPT !.op = "down",
                              !.resolved = IF loopEnabledRef THEN beat ELSE NoBeat]
     /\ UNCHANGED << layout, loopVars, tickPosition, clockVars, cursorVars,
                     persistedLoop, rebuildPending, pureCall, customVars >>

\* onDown
onDown(p) ==
  LET beat == resolveTable[layout][p]
  IN /\ IF loopEnabledRef /\ beat # NoBeat
        THEN /\ isDragging' = TRUE
             /\ downXRef' = p.x
             /\ downYRef' = p.y
             /\ startBeat' = beat
             /\ endBeat' = beat
             /\ downTickRef' = tickOf(beat)
             /\ beatCrossedRef' = FALSE
             /\ moveHistory' = "none"
        ELSE UNCHANGED << gestureVars, moveHistory >>
     /\ ev' = [NoEvent EXCEPT !.op = "down",
                              !.resolved = IF loopEnabledRef THEN beat ELSE NoBeat]
     /\ UNCHANGED << layout, loopVars, tickPosition, clockVars, cursorVars, overlayRects,
                     persistedLoop, rebuildPending, pureCall, customVars >>

\* onMove with the flag recomputed from the last move alone
onMoveLastOnly(p) ==
  LET beat == resolveTable[layout][p]
      live == isDragging /\ startBeat # NoBeat
      crossed == downTickRef # NoTick /\ tickOf(beat) # downTickRef
  IN /\ IF live /\ beat # NoBeat
        THEN /\ endBeat' = beat
             /\ beatCrossedRef' = crossed
             /\ overlayRects' = IF crossed
                                THEN buildRects(layout, loHi(startBeat, beat)[1], loHi(startBeat, beat)[2])
                                ELSE overlayRects
             /\ moveHistory' = IF tickOf(beat) # downTickRef \/ moveHistory = "crossed"
                               THEN "crossed" ELSE "same"
             /\ ev' = [NoEvent EXCEPT !.op = "move", !.resolved = beat, !.painted = crossed,
                                      !.dist = farFromPress(p)]
        ELSE /\ UNCHANGED << endBeat, beatCrossedRef, overlayRects, moveHistory >>
             /\ ev' = [NoEvent EXCEPT !.op = "move"]
     /\ UNCHANGED << layout, loopVars, tickPosition, clockVars, cursorVars, isDragging, startBeat,
                     downTickRef, downXRef, downYRef, persistedLoop, rebuildPending, pureCall, customVars >>

\* onMove
onMove(p) ==
  LET beat == resolveTable[layout][p]
      live == isDragging /\ startBeat # NoBeat
      crossed == beatCrossedRef \/ (downTickRef # NoTick /\ tickOf(beat) # downTickRef)
  IN /\ IF live /\ beat # NoBeat
        THEN /\ endBeat' = beat
             /\ beatCrossedRef' = crossed
             /\ overlayRects' = IF crossed
                                THEN buildRects(layout, loHi(startBeat, beat)[1], loHi(startBeat, beat)[2])
                                ELSE overlayRects
             /\ moveHistory' = IF tickOf(beat) # downTickRef \/ moveHistory = "crossed"
                               THEN "crossed" ELSE "same"
             /\ ev' = [NoEvent EXCEPT !.op = "move", !.resolved = beat, !.painted = crossed,
                                      !.dist = farFromPress(p)]
        ELSE /\ UNCHANGED << endBeat, beatCrossedRef, overlayRects, moveHistory >>
             /\ ev' = [NoEvent EXCEPT !.op = "move"]
     /\ UNCHANGED << layout, loopVars, tickPosition, clockVars, cursorVars, isDragging, startBeat,
                     downTickRef, downXRef, downYRef, persistedLoop, rebuildPending, pureCall, customVars >>

\* the intent gate of the file header: a click is a gesture that crossed no
\* beat and ended less than CLICK_DIST px from the press point
clickIntentWithDistance(crossed, dist) == ~crossed /\ dist = "near"

\* the intent gate of onUp: beatCrossedRef alone tells a click from a drag;
\* pixelDist is computed and logged only
clickIntent(crossed, dist) == ~crossed

\* onUp
onUp(p) ==
  LET sb == startBeat
      eb == IF endBeat # NoBeat THEN endBeat ELSE startBeat
      snap == IF clickIntent(beatCrossedRef, farFromPress(p)) THEN barSnapRange(sb) ELSE NoRange
      lo == loHi(sb, eb)[1]
      hi == loHi(sb, eb)[2]
      beatRange == [startTick |-> tickOf(lo), endTick |-> tickOf(hi) + durOf(hi)]
  IN /\ isDragging' = FALSE
     /\ IF isDragging /\ sb # NoBeat
        THEN IF snap # NoRange
             THEN /\ playbackRange' = snap
                  /\ isLooping' = TRUE
                  /\ overlayRects' = buildBarRects(layout, sb.bar)
                  /\ persistedLoop' = snap
                  /\ ev' = [NoEvent EXCEPT !.op = "up", !.painted = TRUE, !.committed = snap,
                                           !.dist = farFromPress(p)]
             ELSE /\ playbackRange' = beatRange
                  /\ isLooping' = TRUE
                  /\ overlayRects' = buildRects(layout, lo, hi)
                  /\ persistedLoop' = beatRange
                  /\ ev' = [NoEvent EXCEPT !.op = "up", !.painted = TRUE, !.committed = beatRange,
                                           !.dist = farFromPress(p)]
        ELSE /\ UNCHANGED << playbackRange, isLooping, overlayRects, persistedLoop >>
             /\ ev' = [NoEvent EXCEPT !.op = "up", !.cancelled = isDragging]
     /\ UNCHANGED << layout, loopEnabledRef, tickPosition, clockVars, cursorVars, startBeat, endBeat,
                     downTickRef, beatCrossedRef, downXRef, downYRef, rebuildPending, moveHistory, pureCall, customVars >>

\* how many render-finished callbacks may wait for their animation frames at once
MaxPending == 1

allWide(rects) == \A i \in 1 .. Len(rects) : rects[i].w > 0

\* rebuildFromPlaybackRange(): the rectangles it sets, or the old ones
rebuiltRects(lay, range, old) ==
  LET startB == findBeat(range.startTick)
      endB == findBeat(range.endTick - 1)
      barRects == buildBarRects(lay, startB.bar)
      newRects == buildRects(lay, loHi(startB, endB)[1], loHi(startB, endB)[2])
  IN IF range = NoRange \/ Len(lay) = 0 THEN old
     ELSE IF startB = NoBeat \/ endB = NoBeat THEN old
     ELSE IF /\ startB.bar = endB.bar
             /\ isFirstBeatInBar(startB)
             /\ isLastBeatInBar(endB)
             /\ Len(barRects) > 0
             /\ allWide(barRects)
          THEN barRects
     ELSE IF Len(newRects) > 0 /\ allWide(newRects) THEN newRects
     ELSE old

\* handleRenderFinished without the gesture reset
handleRenderFinishedKeepsGesture(newLayout) ==
  /\ rebuildPending < MaxPending
  /\ layout' = newLayout
  /\ UNCHANGED << isDragging, startBeat, endBeat, beatCrossedRef >>
  /\ rebuildPending' = rebuildPending + 1
  /\ ev' = [NoEvent EXCEPT !.op = "renderFinished", !.cancelled = (isDragging /\ startBeat # NoBeat)]
  /\ UNCHANGED << loopVars, tickPosition, clockVars, cursorVars, overlayRects, downTickRef,
                  downXRef, downYRef, persistedLoop, moveHistory, pureCall, customVars >>

\* handleRenderFinished: the renderer finished a layout pass (newLayout is
\* the geometry it produced); the rebuild waits for two animation frames
handleRenderFinished(newLayout) ==
  /\ rebuildPending < MaxPending
  /\ layout' = newLayout
  /\ isDragging' = FALSE
  /\ startBeat' = NoBeat
  /\ endBeat' = NoBeat
  /\ beatCrossedRef' = FALSE
  /\ rebuildPending' = rebuildPending + 1
  /\ ev' = [NoEvent EXCEPT !.op = "renderFinished", !.cancelled = (isDragging /\ startBeat # NoBeat)]
  /\ UNCHANGED << loopVars, tickPosition, clockVars, cursorVars, overlayRects, downTickRef,
                  downXRef, downYRef, persistedLoop, moveHistory, pureCall, customVars >>

\* the rebuild dropping the loop once it has redrawn the highlights
rebuildFrameDropsLoop ==
  /\ rebuildPending > 0
  /\ rebuildPending' = rebuildPending - 1
  /\ overlayRects' = rebuiltRects(layout, playbackRange, overlayRects)
  /\ playbackRange' = NoRange
  /\ isLooping' = FALSE
  /\ ev' = [NoEvent EXCEPT !.op = "rebuild",
                           !.painted = (rebuiltRects(layout, playbackRange, overlayRects) # overlayRects)]
  /\ UNCHANGED << layout, loopEnabledRef, tickPosition, clockVars, cursorVars, gestureVars,
                  persistedLoop, moveHistory, pureCall, customVars >>

\* the second animation frame of a render-finished callback
rebuildFrame ==
  /\ rebuildPending > 0
  /\ rebuildPending' = rebuildPending - 1
  /\ overlayRects' = rebuiltRects(layout, playbackRange, overlayRects)
  /\ ev' = [NoEvent EXCEPT !.op = "rebuild",
                           !.painted = (rebuiltRects(layout, playbackRange, overlayRects) # overlayRects)]
  /\ UNCHANGED << layout, loopVars, tickPosition, clockVars, cursorVars, gestureVars, persistedLoop,
                  moveHistory, pureCall, customVars >>

\* clearLoop(): the Clear button (enabled while loop mode is on)
clearLoop ==
  /\ loopEnabledRef
  /\ isLooping' = FALSE
  /\ playbackRange' = NoRange
  /\ startBeat' = NoBeat
  /\ endBeat' = NoBeat
  /\ overlayRects' = << >>
  /\ persistedLoop' = NoRange
  /\ ev' = [NoEvent EXCEPT !.op = "clear"]
  /\ UNCHANGED << layout, loopEnabledRef, tickPosition, clockVars, cursorVars, isDragging,
                  downTickRef, beatCrossedRef, downXRef, downYRef, rebuildPending, moveHistory, pureCall, customVars >>

\* the toggle-snap effect: the range committed when loop mode turns on with
\* no range set, NoRange when nothing is committed
toggleSnapRange(tick) ==
  IF findBeat(tick) # NoBeat THEN barSnapRange(findBeat(tick))
  ELSE getExpandedBarRange(tick, NoBeat)

\* the Loop button turning loop mode off without clearLoop's reset of the
\* gesture's beats
loopToggleKeepsGesture ==
  IF ~loopEnabledRef
  THEN LET range == IF playbackRange = NoRange THEN toggleSnapRange(tickPosition) ELSE NoRange
       IN /\ loopEnabledRef' = TRUE
          /\ isLooping' = TRUE
          /\ playbackRange' = IF range # NoRange THEN range ELSE playbackRange
          /\ persistedLoop' = IF range # NoRange THEN range ELSE persistedLoop
          /\ overlayRects' = IF range # NoRange /\ findBeat(tickPosition) # NoBeat
                             THEN buildBarRects(layout, findBeat(tickPosition).bar)
                             ELSE overlayRects
          /\ ev' = [NoEvent EXCEPT !.op = "toggle", !.committed = range,
                       !.painted = (range # NoRange /\ findBeat(tickPosition) # NoBeat)]
          /\ UNCHANGED << layout, tickPosition, clockVars, cursorVars, gestureVars, rebuildPending, moveHistory, pureCall, customVars >>
  ELSE /\ loopEnabledRef' = FALSE
       /\ isLooping' = FALSE
       /\ playbackRange' = NoRange
       /\ UNCHANGED << startBeat, endBeat >>
       /\ overlayRects' = << >>
       /\ persistedLoop' = NoRange
       /\ ev' = [NoEvent EXCEPT !.op = "toggle"]
       /\ UNCHANGED << layout, tickPosition, clockVars, cursorVars, isDragging, downTickRef,
                       beatCrossedRef, downXRef, downYRef, rebuildPending, moveHistory, pureCall, customVars >>

\* the Loop button: onLoopToggle(next), clearLoop() when turning off, and the
\* effects of the render that follows (loopRef, toggle-snap)
loopToggle ==
  IF ~loopEnabledRef
  THEN LET range == IF playbackRange = NoRange THEN toggleSnapRange(tickPosition) ELSE NoRange
       IN /\ loopEnabledRef' = TRUE
          /\ isLooping' = TRUE
          /\ playbackRange' = IF range # NoRange THEN range ELSE playbackRange
          /\ persistedLoop' = IF range # NoRange THEN range ELSE persistedLoop
          /\ overlayRects' = IF range # NoRange /\ findBeat(tickPosition) # NoBeat
                             THEN buildBarRects(layout, findBeat(tickPosition).bar)
                             ELSE overlayRects
          /\ ev' = [NoEvent EXCEPT !.op = "toggle", !.committed = range,
                       !.painted = (range # NoRange /\ findBeat(tickPosition) # NoBeat)]
          /\ UNCHANGED << layout, tickPosition, clockVars, cursorVars, gestureVars, rebuildPending, moveHistory, pureCall, customVars >>
  ELSE /\ loopEnabledRef' = FALSE
       /\ isLooping' = FALSE
       /\ playbackRange' = NoRange
       /\ startBeat' = NoBeat
       /\ endBeat' = NoBeat
       /\ overlayRects' = << >>
       /\ persistedLoop' = NoRange
       /\ ev' = [NoEvent EXCEPT !.op = "toggle"]
       /\ UNCHANGED << layout, tickPosition, clockVars, cursorVars, isDragging, downTickRef,
                       beatCrossedRef, downXRef, downYRef, rebuildPending, moveHistory, pureCall, customVars >>

SeekTick == 10000

\* handleSeek: the Seek button; updateCursorForTick snaps the cursor to the
\* beat findBeat returns
handleSeek ==
  /\ tickPosition' = SeekTick
  /\ ev' = [NoEvent EXCEPT !.op = "seek", !.tick = SeekTick,
              !.by = IF findBeat(SeekTick) # NoBeat THEN "findBeat" ELSE "none",
              !.calls = IF findBeat(SeekTick) # NoBeat
                        THEN << SetBeatCall(findBeat(SeekTick)), SetTickCall(SeekTick, NoBeat, NoTick) >>
                        ELSE << >>]
  /\ \E seen \in { playerIsPlaying, FALSE } :
       cursor' = updateCursorForTick(cursor, SeekTick, seen)
  /\ UNCHANGED << layout, loopVars, clockVars, playerIsPlaying, overlayRects, gestureVars,
                  persistedLoop, rebuildPending, moveHistory, pureCall, customVars >>

\* handleTogglePlay: the Play / Pause button
handleTogglePlay ==
  /\ playerIsPlaying' = ~playerIsPlaying
  /\ ev' = [NoEvent EXCEPT !.op = "play"]
  /\ UNCHANGED << layout, loopVars, tickPosition, clockVars, cursor, overlayRects,
                  gestureVars, persistedLoop, rebuildPending, moveHistory, pureCall, customVars >>

\* the timers of the page's renderFinished and playerStateChanged handlers:
\* updateCursorForTick(api, api.tickPosition)
refreshCursor ==
  /\ cursor' = updateCursorForTick(cursor, tickPosition, playerIsPlaying)
  /\ ev' = [NoEvent EXCEPT !.op = "refresh", !.tick = tickPosition,
              !.by = IF findBeat(tickPosition) # NoBeat THEN "findBeat" ELSE "none",
              !.calls = IF findBeat(tickPosition) # NoBeat
                        THEN << SetBeatCall(findBeat(tickPosition)),
                                SetTickCall(tickPosition, NoBeat, NoTick) >>
                        ELSE << >>]
  /\ UNCHANGED << layout, loopVars, tickPosition, clockVars, playerIsPlaying, overlayRects,
                  gestureVars, persistedLoop, rebuildPending, moveHistory, pureCall, customVars >>

\* ------------------------------------------------------------------ CustomLoopOverlay v2.6: state

CLICK_THRESHOLD_PX == 5

\* findBarAtPos(...) = null
NoBarHit == [index |-> -1, startTick |-> -1, endTick |-> -1]

\* dragRef after construction
NoDrag ==
  [isDragging |-> FALSE, startX |-> 0, startY |-> 0, startBar |-> NoBarHit,
   currentBar |-> NoBarHit, startTick |-> NoTick, currentTick |-> NoTick,
   passRefTick |-> 0]

\* ------------------------------------------------------------------ specifications

NoPureCall ==
  [fn |-> "none", table |-> 1, index |-> 0, refTick |-> 0, done |-> FALSE, result |-> NoTick]

\* loop mode off, no range in the engine, nothing persisted
InitLoopOff ==
  /\ loopEnabledRef = FALSE
  /\ playbackRange = NoRange
  /\ isLooping = FALSE
  /\ persistedLoop = NoRange

\* the refs of the clock handler, the gesture and the overlays after mount
InitOtherRefs ==
  /\ tickPosition = 0
  /\ lastTickRef = NoTick
  /\ stableCurBeatRef = NoBeat
  /\ stableExpandedBeatStartRef = 0
  /\ stableNextBeatRef = NoBeat
  /\ overlayRects = << >>
  /\ isDragging = FALSE
  /\ startBeat = NoBeat
  /\ endBeat = NoBeat
  /\ downTickRef = NoTick
  /\ beatCrossedRef = FALSE
  /\ downXRef = 0
  /\ downYRef = 0
  /\ rebuildPending = 0
  /\ ev = NoEvent
  /\ moveHistory = "none"
  /\ playerIsPlaying = FALSE
  /\ snapModeRef = "bar"
  /\ dragRef = NoDrag
  /\ previewSelection = NoRange
  /\ loopSelectionRef = NoRange
  /\ pointerHeld = FALSE

\* the refs and React state of the page and its overlays after mount
InitRefs == InitLoopOff /\ InitOtherRefs

\* the page once the renderer has drawn the whole score
InitPage == layout \in Layouts /\ InitRefs /\ cursor = NewCursor

Init == InitPage /\ pureCall = NoPureCall

PointerDown == \E p \in Points : onDown(p)
PointerMove == \E p \in Points : onMove(p)
PointerUp == \E p \in Points : onUp(p)
RenderFinished == \E lay \in Layouts : handleRenderFinished(lay)

\* the clock side of the page: position events, the Loop, Clear and Seek buttons
NextClock == ClockEvent \/ loopToggle \/ clearLoop \/ handleSeek

SpecClock == Init /\ [][NextClock]_vars

\* the gesture side of the page: pointer events, layout passes, the buttons
Next ==
  \/ PointerDown
  \/ PointerMove
  \/ PointerUp
  \/ RenderFinished
  \/ rebuildFrame
  \/ loopToggle
  \/ clearLoop
  \/ handleSeek

Spec == Init /\ [][Next]_vars

\* ------------------------------------------------------------------ CustomLoopOverlay v2.6: expanded-pass resolver

\* tickCache.masterBars for a sequence of structural indices played in order
tableOf(indices) ==
  [ k \in 1 .. Len(indices) |-> [index |-> indices[k], start |-> (k - 1) * 1920] ]

\* the occurrence tables the resolver is called with: bar 5 played three
\* times (at 9600, 19200 and 28800), twice, and the table of the score
ExpanderTables ==
  << tableOf(<< 0, 1, 2, 3, 4, 5, 1, 2, 3, 4, 5, 1, 2, 3, 4, 5 >>),
     tableOf(<< 0, 1, 2, 3, 4, 5, 1, 2, 3, 4, 5 >>),
     masterBars >>

\* instances = tickCache.masterBars.filter(mb => mb.masterBar.index === visualBarIndex)
RECURSIVE instancesFrom(_, _, _)
instancesFrom(table, visualBarIndex, k) ==
  IF k > Len(table) THEN << >>
  ELSE IF table[k].index = visualBarIndex
       THEN << table[k] >> \o instancesFrom(table, visualBarIndex, k + 1)
  ELSE instancesFrom(table, visualBarIndex, k + 1)

\* the reduce with <= : the last of several equally near instances wins
RECURSIVE reduceNearestLast(_, _, _, _)
reduceNearestLast(instances, refTick, prev, k) ==
  IF k > Len(instances) THEN prev
  ELSE reduceNearestLast(instances, refTick,
                         IF Abs(instances[k].start - refTick) <= Abs(prev.start - refTick)
                         THEN instances[k] ELSE prev,
                         k + 1)

\* instances.reduce((prev, curr) => |curr.start - refTick| < |prev.start - refTick| ? curr : prev)
\* from element k on, prev being the accumulator
RECURSIVE reduceNearest(_, _, _, _)
reduceNearest(instances, refTick, prev, k) ==
  IF k > Len(instances) THEN prev
  ELSE reduceNearest(instances, refTick,
                     IF Abs(instances[k].start - refTick) < Abs(prev.start - refTick)
                     THEN instances[k] ELSE prev,
                     k + 1)

\* resolveExpandedBarStart(tickCache, visualBarIndex, refTick), NoTick for null
resolveExpandedBarStart(table, visualBarIndex, refTick) ==
  LET instances == instancesFrom(table, visualBarIndex, 1)
  IN IF Len(instances) = 0 THEN NoTick
     ELSE reduceNearest(instances, refTick, instances[1], 2).start

\* the reference ticks and structural indices of the calls
ExpanderRefTicks == { 0, 9600, 12000, 14399, 14400, 14401, 19200, 20000, 24000, 28800, 30000 }
ExpanderBars == 0 .. 6

ExpanderCalls ==
  { [fn |-> "resolveExpandedBarStart", table |-> i, index |-> b, refTick |-> r,
     done |-> FALSE, result |-> NoTick] :
      i \in 1 .. Len(ExpanderTables), b \in ExpanderBars, r \in ExpanderRefTicks }

InitExpander == InitPage /\ pureCall \in ExpanderCalls

callResolveExpandedBarStart ==
  /\ pureCall.fn = "resolveExpandedBarStart"
  /\ ~pureCall.done
  /\ pureCall' = [pureCall EXCEPT !.done = TRUE,
                    !.result = resolveExpandedBarStart(ExpanderTables[pureCall.table],
                                                       pureCall.index, pureCall.refTick)]
  /\ UNCHANGED << layout, loopVars, tickPosition, clockVars, cursorVars, overlayRects, gestureVars,
                  persistedLoop, rebuildPending, ev, moveHistory, customVars >>

SpecExpander == InitExpander /\ [][callResolveExpandedBarStart]_vars

\* the loop as a whole: selections committed by gestures or by the Loop
\* button, and the position events that meet their end
LoopClockTicks == { 959, 1920 }

LoopClockEvent ==
  \E t \in LoopClockTicks :
    /\ playerPositionChanged(t)
    /\ UNCHANGED << layout, loopVars, overlayRects, gestureVars, persistedLoop,
                    rebuildPending, moveHistory, pureCall, customVars, playerIsPlaying >>

NextLoop == PointerDown \/ PointerMove \/ PointerUp \/ loopToggle \/ LoopClockEvent

SpecLoop == Init /\ [][NextLoop]_vars

\* ------------------------------------------------------------------ the page driving the cursor

\* the ticks of the position events while the cursor is watched
CursorClockTicks == { 0, 959, 960, 1920, 3840, 5000, 7680, 8160, 11520 }

CursorClockEvent ==
  \E t \in CursorClockTicks :
    /\ playerPositionChanged(t)
    /\ UNCHANGED << layout, loopVars, overlayRects, gestureVars, persistedLoop,
                    rebuildPending, moveHistory, pureCall, customVars, playerIsPlaying >>

\* position events, the Loop, Seek and Play buttons, the cursor refresh timers
NextCursor ==
  \/ CursorClockEvent
  \/ loopToggle
  \/ handleSeek
  \/ handleTogglePlay
  \/ refreshCursor

SpecCursor == Init /\ [][NextCursor]_vars

\* ------------------------------------------------------------------ the cursor before the layout is complete

\* boundsLookup while the renderer has produced only the first bars of the
\* score: beats of the later bars have no bounds yet
PartialLayouts == { << 0, 1 >>, << 0, 1, 1, 2 >> }

InitPartial ==
  layout \in PartialLayouts /\ InitRefs /\ cursor = NewCursor /\ pureCall = NoPureCall

SpecPartial == InitPartial /\ [][NextCursor]_vars

\* ------------------------------------------------------------------ the enforcer on a one-beat loop

\* playbackDuration of the beat a release committed alone: a 64th, a 32nd, a
\* 16th and an eighth note at 960 ticks per quarter
OneBeatDurations == { 60, 120, 240, 480 }

\* expanded start of that beat
OneBeatStarts == { 0, 960, 3840 }

\* the ranges onUp commits at beat level for a gesture on one beat:
\* startTick = tickOf(lo), endTick = tickOf(hi) + durOf(hi), lo = hi
OneBeatRanges ==
  { [startTick |-> s, endTick |-> s + d] : s \in OneBeatStarts, d \in OneBeatDurations }

\* the page after such a release in loop mode
InitOneBeatLoop ==
  /\ layout \in Layouts
  /\ loopEnabledRef = TRUE
  /\ playbackRange \in OneBeatRanges
  /\ isLooping = TRUE
  /\ persistedLoop = playbackRange
  /\ InitOtherRefs
  /\ cursor = NewCursor
  /\ pureCall = NoPureCall

\* the player reports the start of the range, or a tick outside it
OneBeatClockEvent ==
  /\ \E t \in OneBeatStarts \cup { 959 } : playerPositionChanged(t)
  /\ UNCHANGED << layout, loopVars, overlayRects, gestureVars, persistedLoop,
                  rebuildPending, moveHistory, pureCall, customVars, playerIsPlaying >>

NextOneBeatLoop == OneBeatClockEvent \/ handleTogglePlay

SpecOneBeatLoop == InitOneBeatLoop /\ [][NextOneBeatLoop]_vars

\* ------------------------------------------------------------------ the scans run again from the same tick

\* no scan recorded
NoScan == [expandedBeatStart |-> NoTick, scannedNextBeat |-> NoBeat]

\* the ticks the player reports between two entries at the watched tick
RescanAwayTicks == { 0, 13440 }

\* the watched entry tick, how many events at it have run both scans, and
\* what the first and the second of them froze
RescanCalls ==
  { [fn |-> "scans", tick |-> t, runs |-> 0, first |-> NoScan, second |-> NoScan] :
      t \in ClockTicks }

InitRescan == InitPage /\ pureCall \in RescanCalls

\* a position event at the watched tick or away from it; an event at the
\* watched tick that enters a beat records what its scans froze
RescanEvent ==
  /\ pureCall.fn = "scans"
  /\ pureCall.runs < 2
  /\ \E t \in { pureCall.tick } \cup RescanAwayTicks :
       /\ playerPositionChanged(t)
       /\ pureCall' =
            IF t = pureCall.tick /\ ev'.scans = 2
            THEN LET frozen == [expandedBeatStart |-> stableExpandedBeatStartRef',
                                scannedNextBeat |-> stableNextBeatRef']
                 IN IF pureCall.runs = 0
                    THEN [pureCall EXCEPT !.runs = 1, !.first = frozen]
                    ELSE [pureCall EXCEPT !.runs = 2, !.second = frozen]
            ELSE pureCall
  /\ UNCHANGED << layout, loopVars, overlayRects, gestureVars, persistedLoop,
                  rebuildPending, moveHistory, customVars, playerIsPlaying >>

SpecRescan == InitRescan /\ [][RescanEvent]_vars

\* ------------------------------------------------------------------ setTick called alone

\* the beats the cursor has been given before the call
SetTickBeats == { [bar |-> 0, n |-> 1], [bar |-> 1, n |-> 1], [bar |-> 3, n |-> 2] }

\* beat.playbackDuration of a malformed beat
MalformedDurations == { -480, 0 }

\* the cursor before the call: as constructed, or after setBeat of a beat
\* with its own or a malformed playbackDuration
SetTickCursors ==
  { NewCursor }
    \cup { setBeat(NewCursor, b) : b \in SetTickBeats }
    \cup { [setBeat(NewCursor, b) EXCEPT !.beatDuration = d] :
             b \in SetTickBeats, d \in MalformedDurations }

SetTickCallTicks == { 0, 500, 2400, 6000 }

SetTickCalls ==
  { [fn |-> "setTick", tick |-> t, nextBeat |-> nb, overrideBeatStart |-> o,
     isPlaying |-> pl, done |-> FALSE] :
      t \in SetTickCallTicks, nb \in { NoBeat, [bar |-> 0, n |-> 2], [bar |-> 3, n |-> 3] },
      o \in { NoTick, 3840 }, pl \in BOOLEAN }

InitSetTick ==
  layout \in Layouts /\ InitRefs /\ cursor \in SetTickCursors /\ pureCall \in SetTickCalls

callSetTick ==
  /\ pureCall.fn = "setTick"
  /\ ~pureCall.done
  /\ pureCall' = [pureCall EXCEPT !.done = TRUE]
  /\ cursor' = setTick(cursor, pureCall.tick, pureCall.nextBeat,
                       pureCall.overrideBeatStart, pureCall.isPlaying)
  /\ UNCHANGED << layout, loopVars, tickPosition, clockVars, playerIsPlaying, overlayRects,
                  gestureVars, persistedLoop, rebuildPending, ev, moveHistory, customVars >>

SpecSetTick == InitSetTick /\ [][callSetTick]_vars

\* ------------------------------------------------------------------ CustomLoopOverlay v2.6: gestures

\* findBarAtPos taking the start of every hit from masterBar.start, the
\* first-pass tick
findBarAtPosStructural(lay, x, y) ==
  LET hits == { v \in 1 .. Len(lay) :
                  /\ y >= systemBounds(lay).y /\ y <= systemBounds(lay).y + systemBounds(lay).h
                  /\ inRect(x, y, barVisualBounds(v)) }
  IN IF hits = {} THEN NoBarHit
     ELSE LET v == CHOOSE v \in hits : \A u \in hits : v <= u
          IN [index |-> lay[v], startTick |-> structuralStart(lay[v]),
              endTick |-> structuralStart(lay[v]) + calculateDuration(lay[v])]

\* findBarAtPos(api, x, y): the first visual bar whose rectangle holds the
\* point; its expanded start is the instance of tickCache.masterBars counted
\* by the visual bars of the same index before it, masterBar.start when the
\* table has no such instance
findBarAtPos(lay, x, y) ==
  LET hits == { v \in 1 .. Len(lay) :
                  /\ y >= systemBounds(lay).y /\ y <= systemBounds(lay).y + systemBounds(lay).h
                  /\ inRect(x, y, barVisualBounds(v)) }
  IN IF hits = {} THEN NoBarHit
     ELSE LET v == CHOOSE v \in hits : \A u \in hits : v <= u
              occurrence == visualOccurrence(lay, v)
              instances == instancesFrom(masterBars, lay[v], 1)
              startTick == IF occurrence + 1 <= Len(instances)
                           THEN instances[occurrence + 1].start
                           ELSE structuralStart(lay[v])
          IN [index |-> lay[v], startTick |-> startTick,
              endTick |-> startTick + calculateDuration(lay[v])]

\* resolveExpandedBeatTickFromRendererBeat(api, rBeat, passRefTick, fallback)
resolveExpandedBeatTickFromRendererBeat(rBeat, passRefTick) ==
  IF rBeat = NoBeat THEN NoTick
  ELSE LET barStart == resolveExpandedBarStart(masterBars, rBeat.bar, passRefTick)
       IN IF barStart = NoTick THEN NoTick ELSE barStart + playbackStart(rBeat)

\* the proportional tick with the ratio left unclamped
computeInsideBeatTickUnclamped(lay, rBeat, expandedBeatStart, mouseX) ==
  LET vb == getBeatVB(lay, rBeat)
      beatDur == playbackDuration(rBeat)
  IN IF rBeat = NoBeat \/ expandedBeatStart = NoTick \/ vb = NoRect THEN NoTick
     ELSE IF beatDur <= 0 \/ vb.w <= 0 THEN NoTick
     ELSE expandedBeatStart + ((mouseX - vb.x) * beatDur) \div vb.w

\* computeInsideBeatTick(api, rBeat, expandedBeatStart, mouseX):
\* expandedBeatStart + floor(clamp01((mouseX - vb.x) / vb.w) * beatDur)
computeInsideBeatTick(lay, rBeat, expandedBeatStart, mouseX) ==
  LET vb == getBeatVB(lay, rBeat)
      beatDur == playbackDuration(rBeat)
  IN IF rBeat = NoBeat \/ expandedBeatStart = NoTick \/ vb = NoRect THEN NoTick
     ELSE IF beatDur <= 0 \/ vb.w <= 0 THEN NoTick
     ELSE expandedBeatStart
          + (Max2(0, Min2(vb.w, mouseX - vb.x)) * beatDur) \div vb.w

\* the tick as resolved, not clamped
clampToBarOff(tick, barHit) == tick

\* clampToBar(tick, barHit)
clampToBar(tick, barHit) == Max2(barHit.startTick, Min2(barHit.endTick, tick))

\* resolveBeatModeTick from the beat the renderer's getBeatAtPos answered
resolveBeatModeTickOf(lay, rBeat, x, barHit, passRefTick) ==
  LET expandedBeatStart == resolveExpandedBeatTickFromRendererBeat(rBeat, passRefTick)
      insideTick == computeInsideBeatTick(lay, rBeat, expandedBeatStart, x)
      preciseTick == IF rBeat = NoBeat THEN barHit.endTick
                     ELSE IF insideTick # NoTick THEN insideTick
                     ELSE IF expandedBeatStart # NoTick THEN expandedBeatStart
                     ELSE barHit.endTick
  IN clampToBar(preciseTick, barHit)

\* resolveBeatModeTick(x, y, barHit, passRefTick)
resolveBeatModeTick(lay, x, y, barHit, passRefTick) ==
  resolveBeatModeTickOf(lay, getBeatAtPos(lay, x, y), x, barHit, passRefTick)

\* handleMouseDown: preciseTick, the tick of the press
pressTick(mode, lay, rBeat, x, barHit) ==
  IF mode = "beat" /\ barHit # NoBarHit
  THEN resolveBeatModeTickOf(lay, rBeat, x, barHit, barHit.startTick)
  ELSE IF barHit # NoBarHit THEN barHit.startTick ELSE NoTick

\* handleMouseMove: preciseTick, the tick of a move that hit a bar
moveTick(mode, lay, rBeat, x, barHit, passRefTick) ==
  IF mode = "beat" THEN resolveBeatModeTickOf(lay, rBeat, x, barHit, passRefTick)
  ELSE barHit.endTick

\* applyLoopSelection, first scan: for (t = endTick - 1; t >= startTick; t -= 10)
\* from t on: the first t at which a beat resolves, NoTick when there is none
RECURSIVE lastBeatTickFrom(_, _)
lastBeatTickFrom(selection, t) ==
  IF t < selection.startTick THEN NoTick
  ELSE IF findBeat(t) # NoBeat THEN t
  ELSE lastBeatTickFrom(selection, t - 10)

lastBeatTick(selection) == lastBeatTickFrom(selection, selection.endTick - 1)

\* applyLoopSelection, second scan: expandedBeatStart starts at endTick - 1;
\* for (t = endTick - 2; t >= startTick; t--) the first t with no beat or a
\* beat of another identity sets it to t + 1
lastBeatExpandedStart(selection, curBeat) ==
  LET none == selection.startTick - 1
      t == backwardBreak(selection.startTick, selection.endTick - 2, curBeat, none)
  IN IF t = none THEN selection.endTick - 1 ELSE t + 1

\* the content points of the pointer events on the surface
CustomPoints ==
  { [x |-> 100, y |-> 50], [x |-> 102, y |-> 51], [x |-> 500, y |-> 50],
    [x |-> 1100, y |-> 50], [x |-> 300, y |-> 500] }

\* applyLoopSelection: loopEnd
loopEndScanned(selection) ==
  LET t == lastBeatTick(selection)
  IN IF t = NoTick THEN selection.endTick
     ELSE lastBeatExpandedStart(selection, findBeat(t)) + playbackDuration(findBeat(t))

\* findBarAtPos for every layout and point of the pointer events, each computed once
barHitTable ==
  [ lay \in Layouts |-> [ p \in CustomPoints |-> findBarAtPos(lay, p.x, p.y) ] ]

\* the ticks a selection can start or end at: the bounds of the played bars
\* and what the points resolve to in either snap mode
SelectionTicks ==
  { masterBars[k].start : k \in 1 .. Len(masterBars) }
  \cup { masterBars[k].start + calculateDuration(masterBars[k].index) : k \in 1 .. Len(masterBars) }
  \cup UNION { UNION { { resolveBeatModeTick(lay, p.x, p.y, barHitTable[lay][p],
                                              barHitTable[lay][q].startTick) :
                           q \in { q \in CustomPoints : barHitTable[lay][q] # NoBarHit } } :
                       p \in { p \in CustomPoints : barHitTable[lay][p] # NoBarHit } } :
               lay \in Layouts }

\* loopEnd for every selection between two of these ticks, each computed once
loopEndTable ==
  [ selection \in { [startTick |-> a, endTick |-> b] : a \in SelectionTicks, b \in SelectionTicks } |->
      loopEndScanned(selection) ]

loopEndOf(selection) ==
  IF selection \in DOMAIN loopEndTable THEN loopEndTable[selection] ELSE loopEndScanned(selection)

\* the range handed to the engine without the tail
engineRangeExact(selection) ==
  [startTick |-> selection.startTick, endTick |-> loopEndOf(selection)]

\* applyLoopSelection: the range handed to the engine, with the one-tick tail
engineRangeOf(selection) ==
  [startTick |-> selection.startTick, endTick |-> loopEndOf(selection) + 1]

\* a selection taking its two ticks in the order given
selectionUnordered(a, b) == [startTick |-> a, endTick |-> b]

\* { startTick: Math.min(a, b), endTick: Math.max(a, b) }
selectionBetween(a, b) == [startTick |-> Min2(a, b), endTick |-> Max2(a, b)]

\* the selection handleMouseMove previews and handleMouseUp commits for a
\* drag from startBar / startTick to bar / tick
dragSelection(mode, drag, bar, tick) ==
  IF mode = "beat" /\ drag.startTick # NoTick /\ tick # NoTick
  THEN selectionBetween(drag.startTick, tick)
  ELSE [startTick |-> Min2(drag.startBar.startTick, bar.startTick),
        endTick |-> Max2(drag.startBar.endTick, bar.endTick)]

\* observation: whether a pointer event at p is within 5 px of the press
\* point on both axes
nearPress(p) ==
  IF Abs(p.x - dragRef.startX) < 5 /\ Abs(p.y - dragRef.startY) < 5 THEN "near" ELSE "far"

\* no move counted as within the threshold
withinClickThresholdNever(drag, p) == FALSE

\* dx < CLICK_THRESHOLD_PX && dy < CLICK_THRESHOLD_PX
withinClickThreshold(drag, p) ==
  Abs(p.x - drag.startX) < CLICK_THRESHOLD_PX /\ Abs(p.y - drag.startY) < CLICK_THRESHOLD_PX

\* what every handler of this overlay leaves alone
overlayFrame ==
  UNCHANGED << layout, clockVars, cursorVars, overlayRects, gestureVars, rebuildPending,
               moveHistory, pureCall >>

\* the same for a handler that is neither a press nor a release
customFrame == overlayFrame /\ UNCHANGED pointerHeld

\* handleMouseDown(e), left button
handleMouseDown(p) ==
  /\ loopEnabledRef
  /\ LET barHit == barHitTable[layout][p]
         passRefTick == IF barHit # NoBarHit THEN barHit.startTick ELSE 0
         preciseTick == pressTick(snapModeRef, layout, getBeatAtPos(layout, p.x, p.y), p.x, barHit)
     IN dragRef' = [isDragging |-> TRUE, startX |-> p.x, startY |-> p.y,
                    startBar |-> barHit, currentBar |-> barHit,
                    startTick |-> preciseTick, currentTick |-> preciseTick,
                    passRefTick |-> passRefTick]
  /\ ev' = [NoEvent EXCEPT !.op = "mousedown"]
  /\ pointerHeld' = TRUE
  /\ UNCHANGED << loopVars, tickPosition, persistedLoop, snapModeRef, previewSelection,
                  loopSelectionRef >>
  /\ overlayFrame

\* handleMouseMove(e)
handleMouseMove(p) ==
  /\ loopEnabledRef
  /\ dragRef.isDragging
  /\ dragRef.startBar # NoBarHit
  /\ LET barHit == barHitTable[layout][p]
         preciseTick == moveTick(snapModeRef, layout, getBeatAtPos(layout, p.x, p.y), p.x,
                                 barHit, dragRef.passRefTick)
     IN IF withinClickThreshold(dragRef, p)
        THEN /\ ev' = [NoEvent EXCEPT !.op = "mousemove", !.dist = nearPress(p)]
             /\ UNCHANGED << dragRef, previewSelection >>
        ELSE IF barHit = NoBarHit
        THEN /\ ev' = [NoEvent EXCEPT !.op = "mousemove", !.dist = nearPress(p)]
             /\ UNCHANGED << dragRef, previewSelection >>
        ELSE /\ ev' = [NoEvent EXCEPT !.op = "mousemove", !.dist = nearPress(p)]
             /\ IF snapModeRef = "beat" /\ dragRef.startTick # NoTick
                   /\ preciseTick = dragRef.currentTick
                THEN /\ dragRef' = [dragRef EXCEPT !.currentBar = barHit]
                     /\ UNCHANGED previewSelection
                ELSE /\ dragRef' = [dragRef EXCEPT !.currentBar = barHit,
                                                   !.currentTick = preciseTick]
                     /\ previewSelection' = dragSelection(snapModeRef, dragRef, barHit, preciseTick)
  /\ UNCHANGED << loopVars, tickPosition, persistedLoop, snapModeRef, loopSelectionRef >>
  /\ customFrame

\* setLoopSelection, applyLoopSelection and onLoopChange for a selection
\* committed by a release.  handleMouseUp is memoised on [api, surfaceRef,
\* onLoopChange], so the applyLoopSelection it calls writes the loopEnabled of
\* the render that created the callback: the present value or an earlier one
commitSelection(selection) ==
  /\ loopSelectionRef' = selection
  /\ previewSelection' = NoRange
  /\ playbackRange' = engineRangeOf(selection)
  /\ tickPosition' = selection.startTick
  /\ isLooping' \in { loopEnabledRef, FALSE }
  /\ persistedLoop' = selection
  /\ UNCHANGED loopEnabledRef

\* handleMouseUp(e)
handleMouseUp(p) ==
  /\ loopEnabledRef
  /\ dragRef.isDragging
  /\ dragRef' = [dragRef EXCEPT !.isDragging = FALSE]
  /\ LET barHit == barHitTable[layout][p]
         barSelection == [startTick |-> barHit.startTick, endTick |-> barHit.endTick]
         dragged == dragSelection(snapModeRef, dragRef, dragRef.currentBar, dragRef.currentTick)
     IN IF withinClickThreshold(dragRef, p)
        THEN IF barHit = NoBarHit
             THEN /\ previewSelection' = NoRange
                  /\ ev' = [NoEvent EXCEPT !.op = "mouseup"]
                  /\ UNCHANGED << loopVars, tickPosition, persistedLoop, loopSelectionRef >>
             ELSE /\ commitSelection(barSelection)
                  /\ ev' = [NoEvent EXCEPT !.op = "mouseup", !.committed = barSelection]
        ELSE IF dragRef.startBar = NoBarHit \/ dragRef.currentBar = NoBarHit
        THEN /\ previewSelection' = NoRange
             /\ ev' = [NoEvent EXCEPT !.op = "mouseup"]
             /\ UNCHANGED << loopVars, tickPosition, persistedLoop, loopSelectionRef >>
        ELSE IF dragged.startTick = dragged.endTick
        THEN IF barHit = NoBarHit
             THEN /\ previewSelection' = NoRange
                  /\ ev' = [NoEvent EXCEPT !.op = "mouseup"]
                  /\ UNCHANGED << loopVars, tickPosition, persistedLoop, loopSelectionRef >>
             ELSE /\ commitSelection(barSelection)
                  /\ ev' = [NoEvent EXCEPT !.op = "mouseup", !.committed = barSelection]
        ELSE /\ commitSelection(dragged)
             /\ ev' = [NoEvent EXCEPT !.op = "mouseup", !.committed = dragged]
  /\ pointerHeld' = FALSE
  /\ UNCHANGED snapModeRef
  /\ overlayFrame

\* clearLoopSelection(): the Clear button and the Escape key, both live
\* while there is a selection
clearLoopSelection ==
  /\ loopSelectionRef # NoRange
  /\ playbackRange' = NoRange
  /\ isLooping' = FALSE
  /\ loopSelectionRef' = NoRange
  /\ previewSelection' = NoRange
  /\ persistedLoop' = NoRange
  /\ ev' = [NoEvent EXCEPT !.op = "clearSelection"]
  /\ UNCHANGED << loopEnabledRef, tickPosition, snapModeRef, dragRef >>
  /\ customFrame

\* handleToggleSnapMode
handleToggleSnapMode ==
  /\ snapModeRef' = IF snapModeRef = "bar" THEN "beat" ELSE "bar"
  /\ ev' = [NoEvent EXCEPT !.op = "snapMode"]
  /\ UNCHANGED << loopVars, tickPosition, persistedLoop, dragRef, previewSelection,
                  loopSelectionRef >>
  /\ customFrame

\* Auto-init: the one-bar selection at the transport position, NoRange when
\* no beat sounds there
autoInitSelection ==
  LET beat == findBeat(tickPosition)
      expandedStart == resolveExpandedBarStart(masterBars, beat.bar, tickPosition)
  IN IF beat = NoBeat \/ expandedStart = NoTick THEN NoRange
     ELSE [startTick |-> expandedStart,
           endTick |-> expandedStart + calculateDuration(beat.bar)]

\* the Loop button of the overlay: onLoopToggle(newEnabled), the selection
\* cleared when loop mode goes off, the auto-init effect when it comes on
\* with no selection
loopButtonPressed ==
  /\ loopEnabledRef' = ~loopEnabledRef
  /\ IF loopEnabledRef
     THEN /\ IF loopSelectionRef # NoRange
             THEN /\ playbackRange' = NoRange
                  /\ isLooping' = FALSE
                  /\ loopSelectionRef' = NoRange
                  /\ previewSelection' = NoRange
                  /\ persistedLoop' = NoRange
             ELSE UNCHANGED << playbackRange, isLooping, loopSelectionRef,
                               previewSelection, persistedLoop >>
          /\ ev' = [NoEvent EXCEPT !.op = "loopButton"]
          /\ UNCHANGED tickPosition
     ELSE IF loopSelectionRef = NoRange /\ autoInitSelection # NoRange
     THEN /\ loopSelectionRef' = autoInitSelection
          /\ playbackRange' = engineRangeOf(autoInitSelection)
          /\ tickPosition' = autoInitSelection.startTick
          /\ isLooping' = TRUE
          /\ persistedLoop' = autoInitSelection
          /\ ev' = [NoEvent EXCEPT !.op = "loopButton", !.committed = autoInitSelection]
          /\ UNCHANGED previewSelection
     ELSE /\ ev' = [NoEvent EXCEPT !.op = "loopButton"]
          /\ UNCHANGED << playbackRange, isLooping, tickPosition, loopSelectionRef,
                          previewSelection, persistedLoop >>
  /\ UNCHANGED << snapModeRef, dragRef >>
  /\ customFrame

\* the Loop button clicked with the mouse: no gesture is in progress
loopButton == ~dragRef.isDragging /\ loopButtonPressed

MouseDown == \E p \in CustomPoints : handleMouseDown(p)
MouseMove == \E p \in CustomPoints : handleMouseMove(p)
MouseUp == \E p \in CustomPoints : handleMouseUp(p)

\* the host of CustomLoopOverlay: pointer events and the overlay's buttons
NextCustom ==
  \/ MouseDown
  \/ MouseMove
  \/ MouseUp
  \/ clearLoopSelection
  \/ handleToggleSnapMode
  \/ loopButton

SpecCustom == Init /\ [][NextCustom]_vars

\* ------------------------------------------------------------------ loop mode toggled inside a gesture

\* a release while loop mode is off: the listener effect has removed the
\* window listeners, so no handler of the overlay runs
mouseUpUnheard ==
  /\ ~loopEnabledRef
  /\ pointerHeld
  /\ pointerHeld' = FALSE
  /\ ev' = [NoEvent EXCEPT !.op = "mouseupUnheard"]
  /\ UNCHANGED << loopVars, tickPosition, persistedLoop, snapModeRef, dragRef,
                  previewSelection, loopSelectionRef >>
  /\ overlayFrame

\* the host of CustomLoopOverlay when the Loop button can be activated at any
\* moment, from the keyboard too: a press only with the mouse button up and a
\* release only with it down
TogglePoints == { [x |-> 100, y |-> 50], [x |-> 500, y |-> 50] }

ToggleDown == ~pointerHeld /\ \E p \in TogglePoints : handleMouseDown(p)
ToggleMove == \E p \in TogglePoints : handleMouseMove(p)
ToggleUp == pointerHeld /\ \E p \in TogglePoints : handleMouseUp(p)

NextToggle ==
  \/ ToggleDown
  \/ ToggleMove
  \/ ToggleUp
  \/ mouseUpUnheard
  \/ loopButtonPressed
  \/ clearLoopSelection

SpecToggle == Init /\ [][NextToggle]_vars

\* ------------------------------------------------------------------ the two overlays side by side

\* the pointer events of BeatCustomLoopOverlay around a beat boundary
BoundaryDown == \E p \in BoundaryPoints : onDown(p)
BoundaryMove == \E p \in BoundaryPoints : onMove(p)
BoundaryUp == \E p \in BoundaryPoints : onUp(p)

\* the pointer events of CustomLoopOverlay around its click threshold: two
\* points of bar 0 within it of each other, and one in another bar
ThresholdPoints == { [x |-> 100, y |-> 50], [x |-> 102, y |-> 51], [x |-> 500, y |-> 50] }
ThresholdDown == \E p \in ThresholdPoints : handleMouseDown(p)
ThresholdMove == \E p \in ThresholdPoints : handleMouseMove(p)
ThresholdUp == \E p \in ThresholdPoints : handleMouseUp(p)

\* both overlays mounted by one page on one api, each with its own pointer
\* listeners: presses, moves and releases of either, and the Loop button of
\* the page
NextOverlays ==
  \/ ThresholdDown
  \/ ThresholdMove
  \/ ThresholdUp
  \/ BoundaryDown
  \/ BoundaryMove
  \/ BoundaryUp
  \/ loopToggle

SpecOverlays == Init /\ [][NextOverlays]_vars

\* ------------------------------------------------------------------ loop mode turned on during playback

\* the ticks the player has reached when a Loop button is pressed: the first
\* bar, both passes of the repeated bar 1, the second pass of bars 3 and 4
AutoInitTicks == { 0, 3000, 5000, 12000, 13440 }

AutoInitClockEvent ==
  \E t \in AutoInitTicks :
    /\ playerPositionChanged(t)
    /\ UNCHANGED << layout, loopVars, overlayRects, gestureVars, persistedLoop,
                    rebuildPending, moveHistory, pureCall, customVars, playerIsPlaying >>

\* position events and the Loop button of either overlay
NextAutoInit == AutoInitClockEvent \/ loopToggle \/ loopButton

SpecAutoInit == Init /\ [][NextAutoInit]_vars

\* ------------------------------------------------------------------ CustomLoopOverlay v2.6: the hit tests called alone

\* the content points of the calls: the centre, the left edge and the last
\* pixel column of every visual bar, on, above and below the row
HitTestXs ==
  UNION { { barVisualBounds(v).x, barVisualBounds(v).x + barVisualBounds(v).w \div 2,
            barVisualBounds(v).x + barVisualBounds(v).w - 1 } : v \in 1 .. 8 }
HitTestYs == { Row.y + Row.h \div 2, Row.y + Row.h + 50 }

HitTestCalls ==
  { [fn |-> "findBarAtPos", x |-> x, y |-> y, done |-> FALSE, hit |-> NoBarHit] :
      x \in HitTestXs, y \in HitTestYs }

\* the calls of the tick resolution of a press ("down") and of a move
\* ("move") in either snap mode; rBeat is what getBeatAtPos answers for the
\* point, any beat of the score or none
TickCallBeats == AllBeats \cup { NoBeat }
TickCallPassRefs == { 0, 3840, 11520 }

TickCalls ==
  { [fn |-> "preciseTick", on |-> o, mode |-> m, x |-> x, y |-> Row.y + Row.h \div 2,
     rBeat |-> b, passRefTick |-> r, done |-> FALSE, hit |-> NoBarHit, tick |-> NoTick] :
      o \in { "down", "move" }, m \in { "bar", "beat" }, x \in HitTestXs,
      b \in TickCallBeats, r \in TickCallPassRefs }

\* the calls of computeInsideBeatTick: a beat, its expanded start, and two
\* pointer positions given as offsets from the left edge of the beat's
\* rectangle, from left of it to right of the widest rectangle
InsideOffsets == { -10, 0, 1, 7, 50, 95, 96, 191, 200, 400 }
InsideStarts == { 0, 11520 }

InsideCalls ==
  { [fn |-> "computeInsideBeatTick", rBeat |-> b, start |-> t, off |-> o, off2 |-> o2,
     done |-> FALSE, tick |-> NoTick, tick2 |-> NoTick] :
      b \in AllBeats, t \in InsideStarts, o \in InsideOffsets, o2 \in InsideOffsets }

InitHitTest == InitPage /\ pureCall \in (HitTestCalls \cup TickCalls \cup InsideCalls)

callComputeInsideBeatTick ==
  /\ pureCall.fn = "computeInsideBeatTick"
  /\ ~pureCall.done
  /\ pureCall' =
       [pureCall EXCEPT
          !.done = TRUE,
          !.tick = computeInsideBeatTick(layout, pureCall.rBeat, pureCall.start,
                                         getBeatVB(layout, pureCall.rBeat).x + pureCall.off),
          !.tick2 = computeInsideBeatTick(layout, pureCall.rBeat, pureCall.start,
                                          getBeatVB(layout, pureCall.rBeat).x + pureCall.off2)]
  /\ UNCHANGED << layout, loopVars, tickPosition, clockVars, cursorVars, overlayRects, gestureVars,
                  persistedLoop, rebuildPending, ev, moveHistory, customVars >>

callPreciseTick ==
  /\ pureCall.fn = "preciseTick"
  /\ ~pureCall.done
  /\ LET barHit == findBarAtPos(layout, pureCall.x, pureCall.y)
     IN /\ barHit # NoBarHit
        /\ pureCall' =
             [pureCall EXCEPT
                !.done = TRUE,
                !.hit = barHit,
                !.tick = IF pureCall.on = "down"
                         THEN pressTick(pureCall.mode, layout, pureCall.rBeat, pureCall.x, barHit)
                         ELSE moveTick(pureCall.mode, layout, pureCall.rBeat, pureCall.x, barHit,
                                       pureCall.passRefTick)]
  /\ UNCHANGED << layout, loopVars, tickPosition, clockVars, cursorVars, overlayRects, gestureVars,
                  persistedLoop, rebuildPending, ev, moveHistory, customVars >>

callFindBarAtPos ==
  /\ pureCall.fn = "findBarAtPos"
  /\ ~pureCall.done
  /\ pureCall' = [pureCall EXCEPT !.done = TRUE,
                                  !.hit = findBarAtPos(layout, pureCall.x, pureCall.y)]
  /\ UNCHANGED << layout, loopVars, tickPosition, clockVars, cursorVars, overlayRects, gestureVars,
                  persistedLoop, rebuildPending, ev, moveHistory, customVars >>

NextHitTest == callFindBarAtPos \/ callPreciseTick \/ callComputeInsideBeatTick

SpecHitTest == InitHitTest /\ [][NextHitTest]_vars

\* ------------------------------------------------------------------ properties of the clock handler

\* a beat occurrence: entry k of the expansion table playing beat b of its bar
Occurrences ==
  { o \in { [k |-> k, b |-> b] : k \in 1 .. Len(masterBars), b \in AllBeats } :
      o.b.bar = masterBars[o.k].index }

occurrenceHolds(o, t) ==
  /\ masterBars[o.k].start + playbackStart(o.b) <= t
  /\ t < masterBars[o.k].start + playbackStart(o.b) + playbackDuration(o.b)

\* C1: a position event at expanded tick t that reaches the resolver
\* resolves t to the beat of the occurrence whose interval
\* [expandedStart, expandedStart + duration) holds t; a beat is the answer
\* only for ticks inside one of its occurrences, and a tick inside no
\* occurrence resolves to no beat.
C1_ResolverReturnsOwningBeat ==
  (ev.op = "clock" /\ ~ev.wrapped) =>
    /\ \A o \in Occurrences : occurrenceHolds(o, ev.tick) => ev.curBeat = o.b
    /\ \A o \in Occurrences :
         (~occurrenceHolds(o, ev.tick) /\ ev.curBeat = o.b) =>
           \E o2 \in Occurrences : o2.b = o.b /\ o2.k # o.k /\ occurrenceHolds(o2, ev.tick)
    /\ (\A o \in Occurrences : ~occurrenceHolds(o, ev.tick)) => ev.curBeat = NoBeat

\* a tick inside the second beat of bar 3 in its second pass was resolved
C1_Witness ==
  /\ ev.op = "clock"
  /\ ~ev.wrapped
  /\ ev.tick = 12000
  /\ ev.curBeat = [bar |-> 3, n |-> 2]

\* C2: a position event whose resolved beat has the identity of the cached
\* beat (same structural start, same bar index), with no jump detected, runs
\* no scan, does not call setBeat and leaves the cached beat, the frozen
\* expanded beat start and the frozen next beat as they were.
C2_SameBeatSkipsScans ==
  [][ ( /\ ev'.op = "clock"
        /\ ~ev'.wrapped
        /\ ~ev'.jumped
        /\ ev'.curBeat # NoBeat
        /\ stableCurBeatRef # NoBeat
        /\ absolutePlaybackStart(ev'.curBeat) = absolutePlaybackStart(stableCurBeatRef)
        /\ ev'.curBeat.bar = stableCurBeatRef.bar )
      => ( /\ ev'.scans = 0
           /\ \A i \in 1 .. Len(ev'.calls) : ev'.calls[i].fn # "setBeat"
           /\ stableCurBeatRef' = stableCurBeatRef
           /\ stableExpandedBeatStartRef' = stableExpandedBeatStartRef
           /\ stableNextBeatRef' = stableNextBeatRef ) ]_vars

\* a second event inside the cached beat went through the gate
C2_Witness ==
  /\ ev.op = "clock"
  /\ ~ev.wrapped
  /\ ~ev.jumped
  /\ ev.curBeat # NoBeat
  /\ ev.curBeat = stableCurBeatRef
  /\ ev.scans = 0
  /\ ev.tick > stableExpandedBeatStartRef
  /\ Len(ev.calls) = 1
  /\ ev.calls[1].fn = "setTick"

C6_AnchoredNearestPlayback ==
  (ev.op = "up" /\ ev.committed # NoRange) =>
    LET lo == IF beatCrossedRef THEN loHi(startBeat, endBeat)[1] ELSE startBeat
        anchor == ev.committed.startTick - (IF beatCrossedRef THEN playbackStart(lo) ELSE 0)
        occ == { k \in 1 .. Len(masterBars) : masterBars[k].index = lo.bar }
    IN /\ \E k \in occ : masterBars[k].start = anchor
       /\ \A k \in occ : Abs(anchor - tickPosition) <= Abs(masterBars[k].start - tickPosition)

\* C7: a layout-finished event resets dragging, start beat, end beat and the
\* crossed flag in the same step, before any rectangle is rebuilt; from then
\* until the next press that starts a gesture, move and release events
\* neither repaint the highlights nor commit a loop range.
C7_LayoutFinishedCancelsGesture ==
  [][ /\ (ev'.op = "renderFinished") =>
           ( /\ ~isDragging'
             /\ startBeat' = NoBeat
             /\ endBeat' = NoBeat
             /\ ~beatCrossedRef'
             /\ overlayRects' = overlayRects )
      /\ (~isDragging /\ ev'.op \in { "move", "up" }) =>
           ( /\ ~isDragging'
             /\ overlayRects' = overlayRects
             /\ playbackRange' = playbackRange
             /\ persistedLoop' = persistedLoop
             /\ ~ev'.painted
             /\ ev'.committed = NoRange )
      /\ (~isDragging /\ isDragging') => ev'.op = "down" ]_vars

\* a layout pass finished in the middle of a drag that had painted highlights
C7_Witness ==
  /\ ev.op = "renderFinished"
  /\ ev.cancelled
  /\ moveHistory = "crossed"
  /\ overlayRects # << >>
  /\ ~isDragging
  /\ startBeat = NoBeat
  /\ endBeat = NoBeat
  /\ ~beatCrossedRef
  /\ rebuildPending > 0

C9_CrossedFlagIsLatch ==
  [][ /\ (ev'.op = "down" /\ ev'.resolved # NoBeat) => (isDragging' /\ ~beatCrossedRef')
      /\ (ev'.op = "up" /\ isDragging /\ startBeat # NoBeat) =>
           ( /\ beatCrossedRef = (moveHistory = "crossed")
             /\ beatCrossedRef' = beatCrossedRef ) ]_vars

\* a drag that left the press beat and came back to it was released: the
\* flag is still set and a beat-level range was committed
C9_Witness ==
  /\ ev.op = "up"
  /\ ev.committed # NoRange
  /\ moveHistory = "crossed"
  /\ beatCrossedRef
  /\ endBeat = startBeat
  /\ ev.committed = [startTick |-> downTickRef,
                     endTick |-> downTickRef + playbackDuration(startBeat)]

\* ------------------------------------------------------------------ properties of the expanded-pass resolver

\* C10: resolveExpandedBarStart returns the start of the occurrence of the
\* structural index with the least |start - reference|, the first one in
\* table order among equally near ones (starts 9600, 19200, 28800 and
\* reference 20000 give 19200), and null when the index has no occurrence.
C10_NearestOccurrenceFirstOnTie ==
  (pureCall.fn = "resolveExpandedBarStart" /\ pureCall.done) =>
    LET table == ExpanderTables[pureCall.table]
        occ == { k \in 1 .. Len(table) : table[k].index = pureCall.index }
        dist(k) == Abs(table[k].start - pureCall.refTick)
    IN /\ occ = {} => pureCall.result = NoTick
       /\ occ # {} =>
            \E k \in occ :
              /\ pureCall.result = table[k].start
              /\ \A j \in occ : dist(k) < dist(j) \/ (dist(k) = dist(j) /\ k <= j)
       /\ (pureCall.table = 1 /\ pureCall.index = 5 /\ pureCall.refTick = 20000) =>
            pureCall.result = 19200

\* bar 5 at 9600, 19200 and 28800, reference 20000: 19200 was returned
C10_Witness ==
  /\ pureCall.fn = "resolveExpandedBarStart"
  /\ pureCall.done
  /\ pureCall.table = 1
  /\ pureCall.index = 5
  /\ pureCall.refTick = 20000
  /\ { ExpanderTables[1][k].start : k \in { j \in 1 .. Len(ExpanderTables[1]) :
                                             ExpanderTables[1][j].index = 5 } }
       = { 9600, 19200, 28800 }
  /\ pureCall.result = 19200

\* ------------------------------------------------------------------ properties of the scans

\* the beat lookup at tick c answers with a beat of the identity of beat b
sameIdentityAt(c, b) ==
  /\ findBeat(c) # NoBeat
  /\ absolutePlaybackStart(findBeat(c)) = absolutePlaybackStart(b)
  /\ findBeat(c).bar = b.bar

\* C11: on a gated re-resolution at tick t the frozen expanded beat start is
\* b + 1, b being the greatest tick in [t - 2000, t - 1] at which the beat
\* lookup returns no beat or a beat of another identity than the current
\* beat (and t itself when the lookup answers with the current beat's
\* identity at every tick of that window).
C11_FrozenStartOnePastBreak ==
  (ev.op = "clock" /\ ev.scans = 2) =>
    LET t == ev.tick
        s == stableExpandedBeatStartRef
        window == (t - BackwardScanBound) .. (t - 1)
    IN IF \A c \in window : sameIdentityAt(c, ev.curBeat)
       THEN s = t
       ELSE /\ s - 1 \in window
            /\ ~sameIdentityAt(s - 1, ev.curBeat)
            /\ \A c \in s .. (t - 1) : sameIdentityAt(c, ev.curBeat)

\* a re-resolution in the middle of the whole note of bar 1 froze the start
\* of the beat, one past the last tick of bar 0
C11_Witness ==
  /\ ev.op = "clock"
  /\ ev.scans = 2
  /\ ev.tick = 3000
  /\ ev.curBeat = [bar |-> 1, n |-> 1]
  /\ stableExpandedBeatStartRef = 1920
  /\ ~sameIdentityAt(1919, ev.curBeat)

\* ------------------------------------------------------------------ properties of the cursor

\* the handler run made cursor calls and every one of them was setTick
onlySetTick(e) ==
  /\ e.calls # << >>
  /\ \A i \in 1 .. Len(e.calls) : e.calls[i].fn = "setTick"

\* C12: the walk mode is chosen once per beat: when setTick has already
\* interpolated since the last setBeat or requestSnap, a handler run that
\* only calls setTick interpolates in the same mode (Mode A towards the next
\* beat's anchor, Mode B towards the right edge of the bar).
C12_ModeFixedForTheBeat ==
  [][ (cursor.mode # "none" /\ onlySetTick(ev'))
        => /\ cursor'.mode = cursor.mode
           /\ (cursor'.mode = "A") <=> (/\ cursor'.nextBeatCenterX # NoAnchor
                                        /\ cursor'.nextBeatCenterX > cursor'.currentNoteX) ]_vars

\* a later tick of the first beat of bar 0 is interpolated towards the
\* second beat, as the first one was
C12_Witness ==
  /\ ev.op = "clock"
  /\ ev.calls = << SetTickCall(959, [bar |-> 0, n |-> 2], 0) >>
  /\ cursor.currentBeat = [bar |-> 0, n |-> 1]
  /\ cursor.mode = "A"
  /\ cursor.interpolatedX > cursor.currentNoteX

\* C13: setTick never clears or overwrites an established next-beat anchor:
\* when nextBeatCenterX is not null before a handler run that only calls
\* setTick, it has the same value afterwards, whether the next beat passed
\* fails the same-row / same-bar check or passes it.
C13_SetTickKeepsAnchor ==
  [][ (onlySetTick(ev') /\ cursor.nextBeatCenterX # NoAnchor)
        => cursor'.nextBeatCenterX = cursor.nextBeatCenterX ]_vars

\* the cursor sits on the first beat of bar 4 after a seek, anchored to the
\* second beat of bar 4, and a position event has passed it a beat of bar 0
C13_Witness ==
  /\ ev.op = "clock"
  /\ ev.calls = << SetTickCall(959, [bar |-> 0, n |-> 2], 0) >>
  /\ cursor.currentBeat = [bar |-> 4, n |-> 1]
  /\ cursor.nextBeatCenterX = noteCenterX([bar |-> 4, n |-> 2])
  /\ cursor.mode = "A"

\* the handler run ended with a setTick call that got past its early return
lastCallSetTick(e) ==
  /\ e.calls # << >>
  /\ e.calls[Len(e.calls)].fn = "setTick"
  /\ cursor.currentBeat # NoBeat
  /\ cursor.beatDuration > 0

\* C14: in Mode A (a next-beat anchor to the right of the current anchor),
\* whatever tick setTick was given -- before the beat start in use, inside
\* the beat, or past its end -- the X it interpolated lies between the
\* current beat's anchor and the next beat's anchor.
C14_ModeAStaysBetweenAnchors ==
  (/\ lastCallSetTick(ev)
   /\ cursor.nextBeatCenterX # NoAnchor
   /\ cursor.nextBeatCenterX > cursor.currentNoteX)
    => /\ cursor.currentNoteX <= cursor.interpolatedX
       /\ cursor.interpolatedX <= cursor.nextBeatCenterX

\* a tick 1160 before the beat start in use, in Mode A
C14_Witness ==
  /\ ev.op = "clock"
  /\ ev.calls = << SetTickCall(3840, [bar |-> 2, n |-> 1], 5000) >>
  /\ cursor.beatStartToUse = 5000
  /\ cursor.currentBeat = [bar |-> 4, n |-> 1]
  /\ cursor.nextBeatCenterX > cursor.currentNoteX
  /\ cursor.interpolatedX = cursor.currentNoteX

\* C15: when the transport is not playing and the progress of the beat is at
\* least 0.999, the X setTick computes is the current beat's anchor, and the
\* indicator stands within the half pixel of that anchor that a write may be
\* skipped for -- in Mode B, not at the right edge of the bar.
C15_PauseClampToAnchor ==
  (/\ lastCallSetTick(ev)
   /\ ~playerIsPlaying
   /\ 1000 * (ev.calls[Len(ev.calls)].tick - cursor.beatStartToUse)
        >= 999 * cursor.beatDuration)
    => /\ cursor.interpolatedX = cursor.currentNoteX
       /\ 2 * Abs(cursor.elementX
                  - (cursor.currentNoteX - px(CursorGeom.cursorWidth) \div 2)) < px(1)

\* paused at the very end of the whole note of bar 1, which walks in Mode B
C15_Witness ==
  /\ ev.op = "clock"
  /\ Len(ev.calls) = 1
  /\ ev.calls[1].fn = "setTick" /\ ev.calls[1].tick = 3840 /\ ev.calls[1].start = 1920
  /\ ~playerIsPlaying
  /\ cursor.currentBeat = [bar |-> 1, n |-> 1]
  /\ cursor.beatDuration = 1920
  /\ cursor.mode = "B"
  /\ cursor.interpolatedX = cursor.currentNoteX
  /\ barRightEdge(cursor.currentBeat) > cursor.currentNoteX

\* C16: a position event that forces a loop wrap, and one classified as a
\* discontinuity, calls requestSnap before any other cursor call; when
\* requestSnap is all the event called, the next-beat anchor is null, the
\* beat start in use is the structural beat start and the last written
\* position is forgotten; and the first position handed to applyTransform
\* after a requestSnap is never skipped as a sub-pixel change.
C16_SnapOnWrapAndJump ==
  /\ (ev.op = "clock" /\ (ev.wrapped \/ ev.jumped))
       => (ev.calls # << >> /\ ev.calls[1] = RequestSnapCall)
  /\ (ev.op = "clock" /\ ev.calls = << RequestSnapCall >>)
       => /\ cursor.nextBeatCenterX = NoAnchor
          /\ cursor.beatStartToUse = cursor.beatStart
          /\ cursor.snapPending
  /\ ~cursor.snapWriteSkipped

\* a wrap has reset a cursor that had an anchor: the indicator still shows
\* the position written before, the next write is pending
C16_Witness ==
  /\ ev.op = "clock" /\ ev.wrapped
  /\ ev.calls = << RequestSnapCall >>
  /\ cursor.currentBeat = [bar |-> 0, n |-> 1]
  /\ cursor.nextBeatCenterX = NoAnchor
  /\ cursor.snapPending
  /\ cursor.elementX = cursor.currentNoteX - px(CursorGeom.cursorWidth) \div 2
  /\ cursor.lastFinalX # cursor.elementX

\* ------------------------------------------------------------------ properties of the jump detection

\* the step is a position event whose tick lies more than the threshold
\* away from the tick the handler processed last
farFromLastTick ==
  /\ ev'.op = "clock"
  /\ lastTickRef # NoTick
  /\ Abs(ev'.tick - lastTickRef) > JumpThreshold

\* the step ran the full re-resolution: both scans, setBeat, fresh refs
fullReResolution ==
  /\ ev'.scans = 2
  /\ \E i \in 1 .. Len(ev'.calls) : ev'.calls[i] = SetBeatCall(ev'.curBeat)
  /\ ev'.curBeat # NoBeat
  /\ stableCurBeatRef' = ev'.curBeat

\* C17 as stated: every position event more than 2000 ticks away from the
\* previously processed tick discards the cache and runs the full
\* re-resolution in that same event.
C17_EveryFarEventReResolves ==
  [][ farFromLastTick => (ev'.jumped /\ fullReResolution) ]_vars

\* C17: a position event more than 2000 ticks away from the previously
\* processed tick that the enforcer does not turn into a wrap is treated as a
\* jump: requestSnap is called and the cached beat and beat start are
\* discarded; when the tick resolves to a beat the full re-resolution (both
\* scans and setBeat) runs in that same event even if the beat has the
\* identity of the cached one, and when no beat sounds at the tick the refs
\* stay discarded and nothing is scanned.
C17_JumpDiscardsAndReResolves ==
  [][ (farFromLastTick /\ ~ev'.wrapped)
        => /\ ev'.jumped
           /\ ev'.calls # << >> /\ ev'.calls[1] = RequestSnapCall
           /\ IF resolveCurBeat(ev'.tick, layout) # NoBeat
              THEN fullReResolution
              ELSE /\ stableCurBeatRef' = NoBeat
                   /\ stableExpandedBeatStartRef' = 0
                   /\ ev'.scans = 0 ]_vars

\* the second pass of bar 3 is entered 3840 ticks after the first: the beat
\* has the identity of the cached one and is resolved afresh
C17_Witness ==
  /\ ev.op = "clock" /\ ev.jumped /\ ev.sameAsCached
  /\ ev.tick = 11520
  /\ ev.curBeat = [bar |-> 3, n |-> 1]
  /\ ev.scans = 2
  /\ ev.calls[1] = RequestSnapCall
  /\ ev.calls[2] = SetBeatCall([bar |-> 3, n |-> 1])
  /\ stableExpandedBeatStartRef = 11520

\* ------------------------------------------------------------------ properties of CustomLoopOverlay

RECURSIVE lastSoundingTick(_, _)
lastSoundingTick(lo, hi) ==
  IF lo > hi THEN NoTick
  ELSE IF lo = hi THEN (IF findBeat(lo) # NoBeat THEN lo ELSE NoTick)
  ELSE LET mid == (lo + hi + 1) \div 2
           upper == lastSoundingTick(mid, hi)
       IN IF upper # NoTick THEN upper ELSE lastSoundingTick(lo, mid - 1)

\* the end of the beat sounding at tick t: the start of the played bar that
\* holds t, plus the beat's offset in the bar, plus its duration
soundingBeatEnd(t) ==
  masterBars[ownerEntry(t)].start + playbackStart(findBeat(t)) + playbackDuration(findBeat(t))

\* C19: when a committed selection's last bar ends in silence, so that no
\* beat resolves at end - 1, and some beat resolves in [start, end), the loop
\* end applyLoopSelection hands to the engine (less its one-tick tail) is the
\* expanded start of the last resolvable beat of the selection plus that
\* beat's duration.
C19_TrueEndFromLastResolvableBeat ==
  ( /\ ev.committed # NoRange
    /\ findBeat(ev.committed.endTick - 1) = NoBeat
    /\ lastSoundingTick(ev.committed.startTick, ev.committed.endTick - 1) # NoTick )
  => /\ playbackRange # NoRange
     /\ playbackRange.endTick - 1
          = soundingBeatEnd(lastSoundingTick(ev.committed.startTick, ev.committed.endTick - 1))

\* a range that is absent or has its start at or before its end
startNotAfterEnd(r) == r = NoRange \/ r.startTick <= r.endTick

containingBeat(t) ==
  [startTick |-> soundingBeatEnd(t) - playbackDuration(findBeat(t)), endTick |-> soundingBeatEnd(t)]

\* a release that ended a gesture whose two resolved units coincide: the
\* same bar occurrence in bar mode, the same tick in beat mode
zeroLengthRelease ==
  /\ ev.op = "mouseup"
  /\ dragRef.startBar # NoBarHit
  /\ dragRef.startTick # NoTick
  /\ IF snapModeRef = "bar" THEN dragRef.currentBar = dragRef.startBar
     ELSE dragRef.currentTick = dragRef.startTick

\* the bar half of C21: in bar mode a zero-length gesture commits the bar
\* that holds its tick
zeroLengthBarModeCommitsBar ==
  (zeroLengthRelease /\ snapModeRef = "bar" /\ ev.committed # NoRange)
  => ev.committed = [startTick |-> dragRef.startBar.startTick, endTick |-> dragRef.startBar.endTick]

\* C21: a gesture whose resolved start and end ticks coincide commits the
\* bar that holds the tick when the snap mode is bar, and the beat sounding
\* at the tick when the snap mode is beat.
C21_ZeroLengthCommitsContainingUnit ==
  (zeroLengthRelease /\ findBeat(dragRef.startTick) # NoBeat)
  => ev.committed = IF snapModeRef = "bar"
                    THEN [startTick |-> dragRef.startBar.startTick,
                          endTick |-> dragRef.startBar.endTick]
                    ELSE containingBeat(dragRef.startTick)

\* ------------------------------------------------------------------ properties of the hit tests

\* the visual bars of the layout whose rectangle has its centre at (x, y)
barsCentredAt(lay, x, y) ==
  { v \in 1 .. Len(lay) :
      /\ 2 * x = 2 * barVisualBounds(v).x + barVisualBounds(v).w
      /\ 2 * y = 2 * barVisualBounds(v).y + barVisualBounds(v).h }

\* the entries of the expansion table that are the same occurrence of the
\* same structural bar as visual bar v: as many earlier entries with that
\* index as there are earlier visual bars with it
tableEntriesOf(lay, v) ==
  { k \in 1 .. Len(masterBars) :
      /\ masterBars[k].index = lay[v]
      /\ Cardinality({ j \in 1 .. (k - 1) : masterBars[j].index = lay[v] })
           = Cardinality({ u \in 1 .. (v - 1) : lay[u] = lay[v] }) }

\* C22: for every visual bar occurrence of the layout, the hit test at the
\* centre of its rectangle returns that occurrence: its structural index,
\* and as start tick the expanded start of the table entry with the same
\* occurrence number counted in layout order (and start + duration as end).
C22_CentreHitsOwnOccurrence ==
  (pureCall.fn = "findBarAtPos" /\ pureCall.done) =>
    \A v \in barsCentredAt(layout, pureCall.x, pureCall.y) :
      /\ pureCall.hit.index = layout[v]
      /\ \E k \in tableEntriesOf(layout, v) :
           /\ pureCall.hit.startTick = masterBars[k].start
           /\ pureCall.hit.endTick = masterBars[k].start + calculateDuration(layout[v])

\* the centre of the seventh visual bar of the once-per-pass layout, the
\* second drawing of bar 3: the hit starts at 11520, not at the 7680 of the
\* first pass or the structural 5760
C22_Witness ==
  /\ pureCall.fn = "findBarAtPos"
  /\ pureCall.done
  /\ 7 \in barsCentredAt(layout, pureCall.x, pureCall.y)
  /\ layout[7] = 3
  /\ pureCall.hit = [index |-> 3, startTick |-> 11520, endTick |-> 13440]

\* C23: in bar mode and in beat mode, at a press and at a move, the tick
\* resolved for a point that hits a bar lies in [bar start, bar end] of the
\* bar hit, whatever the renderer's beat hit test answered for the point: a
\* beat of the bar, a beat of another bar, or none.
C23_ResolvedTickWithinBarHit ==
  (pureCall.fn = "preciseTick" /\ pureCall.done) =>
     /\ pureCall.hit.startTick <= pureCall.tick
     /\ pureCall.tick <= pureCall.hit.endTick

\* a beat-mode move over the first visual bar for which the renderer
\* answered a beat of bar 3, resolved against the pass at 11520: unclamped
\* the tick would lie beyond the bar, and the bar end is what is resolved
C23_Witness ==
  /\ pureCall.fn = "preciseTick"
  /\ pureCall.done
  /\ pureCall.mode = "beat"
  /\ pureCall.on = "move"
  /\ pureCall.rBeat # NoBeat
  /\ pureCall.rBeat.bar = 3
  /\ pureCall.passRefTick = 11520
  /\ pureCall.hit = [index |-> 0, startTick |-> 0, endTick |-> 1920]
  /\ resolveExpandedBeatTickFromRendererBeat(pureCall.rBeat, pureCall.passRefTick) >= 11520
  /\ pureCall.tick = 1920

\* ------------------------------------------------------------------ properties of the gesture thresholds

\* C24 as claimed, for both overlays: a move event below the pixel threshold
\* (within 5 px of the press on both axes for CustomLoopOverlay, less than
\* 10 px from it for BeatCustomLoopOverlay) leaves the gesture as the press
\* left it and gives no drag feedback: no preview selection, no highlight
\* repaint, no crossed flag.
C24_NoFeedbackBelowPixelThreshold ==
  [][ /\ (ev'.op = "mousemove" /\ ev'.dist = "near") =>
           (previewSelection' = previewSelection /\ dragRef' = dragRef)
      /\ (ev'.op = "move" /\ ev'.dist = "near") =>
           (overlayRects' = overlayRects /\ beatCrossedRef' = beatCrossedRef) ]_vars

\* C24, amended: in CustomLoopOverlay a move within the click threshold of
\* the press changes neither the drag state nor the preview, so a preview
\* appears only on a move past the threshold; in BeatCustomLoopOverlay moves
\* are not filtered by distance: a move repaints the highlight only when the
\* crossed flag is set, and the flag is set by a move exactly when that move
\* resolves a beat whose tick differs from the press tick, however near the
\* press it is.
C24_ThresholdGatesPreviewCrossingGatesRepaint ==
  [][ /\ (ev'.op = "mousemove" /\ ev'.dist = "near") =>
           (previewSelection' = previewSelection /\ dragRef' = dragRef)
      /\ (ev'.op = "mousemove" /\ previewSelection' # previewSelection) => ev'.dist = "far"
      /\ (ev'.op = "move" /\ overlayRects' # overlayRects) => beatCrossedRef'
      /\ (ev'.op = "move" /\ ev'.resolved # NoBeat) =>
           (beatCrossedRef' = (beatCrossedRef \/ tickOf(ev'.resolved) # downTickRef)) ]_vars

\* CustomLoopOverlay after a move two pixels from the press: still pressed,
\* nothing previewed; BeatCustomLoopOverlay in a gesture whose highlight was
\* painted by a move
C24_Witness ==
  /\ ev.op = "mousemove"
  /\ ev.dist = "near"
  /\ dragRef.isDragging
  /\ dragRef.startBar # NoBarHit
  /\ dragRef.currentTick = dragRef.startTick
  /\ previewSelection = NoRange
  /\ isDragging
  /\ beatCrossedRef
  /\ overlayRects # << >>

\* r is s + floor(clamp01(off / w) * d), said without a division: s left of
\* the rectangle, s + d from its right edge on, and between them the r with
\* w * (r - s) <= off * d < w * (r - s + 1)
isProportionalTick(r, s, d, w, off) ==
  IF off <= 0 THEN r = s
  ELSE IF off >= w THEN r = s + d
  ELSE w * (r - s) <= off * d /\ off * d < w * (r - s + 1)

\* C25: for pointer X over a beat rectangle (x0, width w > 0) of a beat with
\* expanded start s and duration d > 0, the in-beat tick is
\* s + floor(clamp01((X - x0) / w) * d); it lies in [s, s + d], and of two
\* pointer positions the one further right never gets the smaller tick.
C25_InsideTickProportionalAndMonotone ==
  (pureCall.fn = "computeInsideBeatTick" /\ pureCall.done) =>
    LET w == getBeatVB(layout, pureCall.rBeat).w
        d == playbackDuration(pureCall.rBeat)
        s == pureCall.start
    IN (w > 0 /\ d > 0) =>
         /\ isProportionalTick(pureCall.tick, s, d, w, pureCall.off)
         /\ isProportionalTick(pureCall.tick2, s, d, w, pureCall.off2)
         /\ s <= pureCall.tick /\ pureCall.tick <= s + d
         /\ s <= pureCall.tick2 /\ pureCall.tick2 <= s + d
         /\ (pureCall.off <= pureCall.off2) => (pureCall.tick <= pureCall.tick2)

\* a pointer 7 px into the 96 px rectangle of a quarter note of bar 3 that
\* starts at 11520 resolves 11520 + 35, and one right of the rectangle
\* resolves the beat end
C25_Witness ==
  /\ pureCall.fn = "computeInsideBeatTick"
  /\ pureCall.done
  /\ pureCall.rBeat = [bar |-> 3, n |-> 1]
  /\ getBeatVB(layout, pureCall.rBeat).w = 96
  /\ pureCall.start = 11520
  /\ pureCall.off = 7
  /\ pureCall.off2 = 200
  /\ pureCall.tick = 11555
  /\ pureCall.tick2 = 12000

\* ------------------------------------------------------------------ C26

\* the event being taken calls setBeat with a beat that has no bounds in the
\* layout, and does not call requestSnap
beatEntryWithoutGeometry ==
  /\ \E i \in 1 .. Len(ev'.calls) :
       /\ ev'.calls[i].fn = "setBeat"
       /\ getBeatVB(layout, ev'.calls[i].beat) = NoRect
  /\ \A i \in 1 .. Len(ev'.calls) : ev'.calls[i].fn # "requestSnap"

\* the fields of the cursor that make up its last known visual state
lastKnownVisualState(c) ==
  << c.currentBeat, c.beatStart, c.beatDuration, c.currentNoteX, c.currentY,
     c.currentVbW, c.nextBeatCenterX, c.lastFinalX, c.lastFinalY, c.elementX, c.elementY >>

\* C26: when the beat passed to the cursor at beat entry has no geometry, the
\* event is skipped: the cursor's current beat, beat start, beat duration,
\* anchor geometry and last written position stay as they were.
C26_GeometryMissHoldsLastState ==
  [][ beatEntryWithoutGeometry
        => lastKnownVisualState(cursor') = lastKnownVisualState(cursor) ]_vars

\* the part of C26 about the written position alone
C26_GeometryMissWritesNothing ==
  [][ beatEntryWithoutGeometry
        => /\ cursor'.lastFinalX = cursor.lastFinalX
           /\ cursor'.elementX = cursor.elementX ]_vars

\* ------------------------------------------------------------------ C27

\* the cursor has no current beat, or a beat of zero or negative duration
noBeatToWalk(c) == c.currentBeat = NoBeat \/ c.beatDuration <= 0

\* C27: with no current beat, or a current beat of zero or negative duration,
\* setTick changes no field of the cursor and writes no position.
C27_SetTickNoOpWithoutWalkableBeat ==
  [][ (pureCall'.fn = "setTick" /\ pureCall'.done /\ ~pureCall.done /\ noBeatToWalk(cursor))
        => cursor' = cursor ]_vars

\* setTick has returned on a cursor whose beat has a negative duration, called
\* with a tick inside the beat and an override start
C27_Witness ==
  /\ pureCall.fn = "setTick"
  /\ pureCall.done
  /\ cursor.currentBeat = [bar |-> 1, n |-> 1]
  /\ cursor.beatDuration < 0
  /\ pureCall.tick = 2400
  /\ pureCall.overrideBeatStart = 3840
  /\ cursor.beatStartToUse = cursor.beatStart

\* ------------------------------------------------------------------ C28

\* the layout draws the occurrence of the bar that is playing at tick t: some
\* visual bar has the structural index of the table entry owning t and is
\* the same numbered instance of it
occurrenceDrawn(t) ==
  /\ ownerEntry(t) # 0
  /\ \E v \in 1 .. Len(layout) :
       /\ layout[v] = masterBars[ownerEntry(t)].index
       /\ visualOccurrence(layout, v) = tableOccurrence(ownerEntry(t))

beatLevelRange ==
  LET eb == IF endBeat # NoBeat THEN endBeat ELSE startBeat
      lo == loHi(startBeat, eb)[1]
      hi == loHi(startBeat, eb)[2]
  IN [startTick |-> tickOf(lo), endTick |-> tickOf(hi) + durOf(hi)]

occurrenceStartOf(t, b) == masterBars[ownerEntry(t)].start + playbackStart(b)

\* C31: after every clock event that reaches the interpolator, the frozen
\* expanded beat start passed to setTick is the start of the beat occurrence
\* that holds the tick: frozenStart <= tick < frozenStart + beat duration.
C31_FrozenStartIsOccurrenceStart ==
  \A i \in 1 .. Len(ev.calls) :
    (ev.op = "clock" /\ ev.calls[i].fn = "setTick") =>
      /\ ev.calls[i].start <= ev.calls[i].tick
      /\ ev.calls[i].tick < ev.calls[i].start + playbackDuration(ev.curBeat)
      /\ ev.calls[i].start = occurrenceStartOf(ev.tick, ev.curBeat)

\* the part of C31 that is the interval alone
C31_TickWithinFrozenBeat ==
  \A i \in 1 .. Len(ev.calls) :
    (ev.op = "clock" /\ ev.calls[i].fn = "setTick") =>
      /\ ev.calls[i].start <= ev.calls[i].tick
      /\ ev.calls[i].tick < ev.calls[i].start + playbackDuration(ev.curBeat)

\* ------------------------------------------------------------------ C32

\* C32: with loop mode on and a committed range [start, end), a clock event
\* delivered at start is not reset to start: it reaches the interpolator.
C32_EventAtLoopStartIsNotWrapped ==
  (ev.op = "clock" /\ loopEnabledRef /\ playbackRange # NoRange
     /\ ev.tick = playbackRange.startTick)
    => ~ev.wrapped

\* the part of C32 about ranges longer than the safety margin
C32_LongRangeStartIsNotWrapped ==
  (ev.op = "clock" /\ loopEnabledRef /\ playbackRange # NoRange
     /\ ev.tick = playbackRange.startTick
     /\ playbackRange.endTick - playbackRange.startTick > SAFETY_MARGIN)
    => ~ev.wrapped

\* ------------------------------------------------------------------ C33

\* C33: whenever loop mode is disabled the playback engine holds no loop range
\* and its looping flag is false.
C33_NoLoopWhileDisabled ==
  ~loopEnabledRef => (playbackRange = NoRange /\ ~isLooping)

\* a gesture was pressed while loop mode was on, loop mode was turned off, and
\* the release of that gesture has just been handled without a commit
C33_Witness ==
  /\ ~loopEnabledRef
  /\ ev.op = "up"
  /\ ev.cancelled
  /\ downTickRef # NoTick
  /\ ~isDragging
  /\ playbackRange = NoRange
  /\ ~isLooping

\* ------------------------------------------------------------------ C34

\* a Loop button turns loop mode on in this step and a one-bar loop is
\* committed with it
autoInitCommits ==
  /\ ~loopEnabledRef
  /\ loopEnabledRef'
  /\ ev'.op \in { "toggle", "loopButton" }
  /\ ev'.committed # NoRange

\* C34: the one-bar loop auto-initialised when loop mode is turned on with no
\* selection contains the playback tick of that moment.
C34_AutoInitLoopContainsTick ==
  [][ autoInitCommits
        => /\ ev'.committed.startTick <= tickPosition
           /\ tickPosition < ev'.committed.endTick ]_vars

\* C34 for the toggle-snap effect of BeatCustomLoopOverlay alone
C34_ToggleSnapContainsTick ==
  [][ (autoInitCommits /\ ev'.op = "toggle")
        => /\ ev'.committed.startTick <= tickPosition
           /\ tickPosition < ev'.committed.endTick ]_vars

\* C34 for the auto-init effect of CustomLoopOverlay alone
C34_AutoInitEffectContainsTick ==
  [][ (autoInitCommits /\ ev'.op = "loopButton")
        => /\ ev'.committed.startTick <= tickPosition
           /\ tickPosition < ev'.committed.endTick ]_vars

\* ------------------------------------------------------------------ C35

\* C35: a preview selection exists only inside a gesture: a move sets the
\* preview only while the button pressed after the most recent release is
\* still down, and after every release the preview is null.
C35_PreviewOnlyInsideGesture ==
  [][ /\ (ev'.op = "mousemove" /\ previewSelection' # previewSelection) => pointerHeld
      /\ (pointerHeld /\ ~pointerHeld') => previewSelection' = NoRange ]_vars

\* the part of C35 about the release
C35_NoPreviewAfterRelease ==
  [][ (pointerHeld /\ ~pointerHeld') => previewSelection' = NoRange ]_vars

\* the part of C35 about the move
C35_MoveSetsPreviewOnlyWhileHeld ==
  [][ (ev'.op = "mousemove" /\ previewSelection' # previewSelection) => pointerHeld ]_vars

\* C35 while loop mode is not toggled inside a gesture
C35_PreviewOnlyInsideGestureUntoggled ==
  (~pointerHeld /\ dragRef.isDragging = pointerHeld) => previewSelection = NoRange

\* ------------------------------------------------------------------ C36

\* C36: within a gesture the highlight rectangles are changed neither by the
\* press nor by a move after which no move of the gesture has yet resolved a
\* tick different from the press tick; they change only from the move that
\* detects the crossing on.
C36_RectsUntouchedBeforeCrossing ==
  [][ /\ ev'.op = "down" => overlayRects' = overlayRects
      /\ (ev'.op = "move" /\ moveHistory' # "crossed") => overlayRects' = overlayRects
      /\ (ev'.op = "move" /\ overlayRects' # overlayRects) => moveHistory' = "crossed" ]_vars

\* a gesture pressed over an earlier selection has moved inside the pressed
\* beat, and the rectangles of the earlier selection are still shown
C36_Witness ==
  /\ ev.op = "move"
  /\ ev.resolved # NoBeat
  /\ isDragging
  /\ moveHistory = "same"
  /\ ~ev.painted
  /\ overlayRects # << >>
  /\ overlayRects # buildRects(layout, startBeat, startBeat)

\* ------------------------------------------------------------------ C37

\* a next beat the cursor can walk to: it has bounds, lies in the bar and in
\* the row of the current beat, and its anchor is right of the current one
usableNextBeat(c, nb) ==
  /\ nb # NoBeat
  /\ getBeatVB(layout, nb) # NoRect
  /\ nb.bar = c.currentBeat.bar
  /\ Abs(getBeatVB(layout, nb).y - c.currentY) < 5
  /\ noteCenterX(nb) > c.currentNoteX

C37_WitnessModeA ==
  /\ ev.op = "clock"
  /\ lastCallSetTick(ev)
  /\ cursor.mode = "A"
  /\ usableNextBeat(cursor, stableNextBeatRef)
  /\ cursor.interpolatedX > cursor.currentNoteX

\* ------------------------------------------------------------------ C38

\* C38: neither the render-finished callback nor the rebuild it schedules
\* changes the range held by the playback engine or the looping flag; the
\* rebuild touches the highlight rectangles only, and only while a range is
\* set.
C38_LayoutFinishedKeepsLoop ==
  [][ ev'.op \in { "renderFinished", "rebuild" }
        => /\ playbackRange' = playbackRange
           /\ isLooping' = isLooping
           /\ persistedLoop' = persistedLoop
           /\ loopEnabledRef' = loopEnabledRef
           /\ (playbackRange = NoRange \/ ev'.op = "renderFinished")
                => overlayRects' = overlayRects ]_vars

\* a rebuild has redrawn the highlights of the loop from the range, in a
\* layout other than the one they were drawn in, and the loop is still set
C38_Witness ==
  /\ ev.op = "rebuild"
  /\ ev.painted
  /\ isLooping
  /\ playbackRange # NoRange
  /\ persistedLoop = playbackRange
  /\ overlayRects # << >>

\* ------------------------------------------------------------------ C39

\* C39: a position event on which the enforcer forces a wrap stops there: it
\* calls requestSnap and nothing else of the cursor, writes the range start
\* to the transport and leaves the last-processed tick, the cached beat, the
\* frozen beat start and the frozen next beat as they were; a position event
\* with loop mode off or no range set is never wrapped, and the transport
\* stays where the engine reported it.
C39_WrapStopsTheEvent ==
  [][ ev'.op = "clock"
        => /\ ev'.wrapped
                => /\ loopEnabledRef /\ playbackRange # NoRange
                   /\ ev'.calls = << RequestSnapCall >>
                   /\ \A i \in 1 .. Len(ev'.calls) : ev'.calls[i].fn \notin { "setBeat", "setTick" }
                   /\ tickPosition' = playbackRange.startTick
                   /\ lastTickRef' = lastTickRef
                   /\ stableCurBeatRef' = stableCurBeatRef
                   /\ stableExpandedBeatStartRef' = stableExpandedBeatStartRef
                   /\ stableNextBeatRef' = stableNextBeatRef
           /\ (~loopEnabledRef \/ playbackRange = NoRange)
                => /\ ~ev'.wrapped
                   /\ tickPosition' = ev'.tick ]_vars

\* a wrapped event at a tick of another beat than the cached one: the cache
\* still holds the beat of the event before
C39_Witness ==
  /\ ev.op = "clock"
  /\ ev.wrapped
  /\ ev.calls = << RequestSnapCall >>
  /\ tickPosition = playbackRange.startTick
  /\ lastTickRef # NoTick
  /\ lastTickRef # ev.tick
  /\ stableCurBeatRef # NoBeat
  /\ findBeat(ev.tick) # NoBeat
  /\ findBeat(ev.tick) # stableCurBeatRef
  /\ cursor.currentBeat = stableCurBeatRef

\* a position event past the end of no range, in loop mode, is processed
C39_WitnessNoRange ==
  /\ ev.op = "clock"
  /\ loopEnabledRef
  /\ playbackRange = NoRange
  /\ ~ev.wrapped
  /\ lastTickRef = ev.tick
  /\ tickPosition = ev.tick

====
